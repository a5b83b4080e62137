------------------------------- MODULE Hotfix -------------------------------
(***************************************************************************)
(* The object hotfix of one Lua service: server/common/Hotfix.lua, with    *)
(* the class(), import() and handler() of server/common/base/luaext.lua it *)
(* rests on and the register() convention of MessageHandler.lua.           *)
(*                                                                         *)
(* A class file defines, at each version, a set of methods.  Loading it    *)
(* makes a class table: its own methods, then through __index those of the *)
(* super class it imported.  Nothing but its versions tells two loads of a *)
(* file apart, so a class is the sequence of <<module, version>> pairs     *)
(* from itself to its root, and a function is the pair it was loaded with. *)
(* An object is its class plus the methods Hotfix assigned to the object   *)
(* itself.  handler(obj, obj.k) keeps the function obj.k was at the time,  *)
(* not the name k: these are the bindings that a hotfix must renew.        *)
(*                                                                         *)
(* A service runs one coroutine at a time and hotfixFile never yields, so  *)
(* nothing of the service interleaves with it; the operator's editor is    *)
(* another process, and a file can be saved between any two loads.  A file *)
(* that is not ok has an error luaL_loadfile reports before any line runs. *)
(* Functions that are assigned and register() are taken not to raise: an   *)
(* error inside object:register() is not modelled.                         *)
(***************************************************************************)
EXTENDS Naturals, Sequences, FiniteSets

CONSTANTS
    Modules,    \* module names of class files
    Objects,    \* identities of instances
    Methods,    \* method names
    Register,   \* the method name "register"
    Chain,      \* Chain[m]: m, its super class's module, and so on to the root
    Defs,       \* Defs[m][v]: the methods that version v of m's file defines
    MaxVer,     \* bound: versions a file goes through
    Broken,     \* whether an edit may leave a file that does not load
    Closing,    \* whether the service ever calls Hotfix:close()
    Nil

Fn == Modules \X (1..MaxVer)

ASSUME HotfixAssumption ==
    /\ Register \in Methods
    /\ MaxVer \in Nat \ {0}
    /\ Broken \in BOOLEAN /\ Closing \in BOOLEAN
    /\ Chain \in [Modules -> Seq(Modules)]
    /\ \A m \in Modules : Chain[m] # << >> /\ Chain[m][1] = m
    /\ Defs \in [Modules -> [1..MaxVer -> SUBSET Methods]]
    /\ Nil \notin Fn \cup Seq(Fn)
    /\ \A S \in SUBSET Objects : Nil # S

VARIABLES
    disk,       \* disk[m]: [ver, ok] of the file require would read
    loaded,     \* package.loaded: a class or Nil
    open,       \* Hotfix.open
    list,       \* module_list: Nil or the set of live objects (a weak table)
    cls,        \* cls[o]: the class o was made from, Nil when there is no o
    own,        \* own[o][k]: the function assigned to o itself, or Nil
    bound,      \* bound[o]: the functions closed over by o's handlers, or Nil
    todo,       \* the keys pairs(module_list) has yet to visit
    running,    \* inside the loop over all modules
    edited,     \* history: the modules edited since that loop began
    skipped     \* history: the modules that loop passed over

vars == <<disk, loaded, open, list, cls, own, bound, todo, running, edited, skipped>>

NoFns == [k \in Methods |-> Nil]

TypeOK ==
    /\ disk \in [Modules -> [ver : 1..MaxVer, ok : BOOLEAN]]
    /\ loaded \in [Modules -> Seq(Fn) \cup {Nil}]
    /\ open \in BOOLEAN
    /\ list \in [Modules -> (SUBSET Objects) \cup {Nil}]
    /\ cls \in [Objects -> Seq(Fn) \cup {Nil}]
    /\ own \in [Objects -> [Methods -> Fn \cup {Nil}]]
    /\ bound \in [Objects -> [Methods -> Fn \cup {Nil}] \cup {Nil}]
    /\ todo \subseteq Modules
    /\ running \in BOOLEAN
    /\ edited \cup skipped \subseteq Modules
    /\ \A m \in Modules : list[m] # Nil => \A o \in list[m] : cls[o] # Nil

Live == {o \in Objects : cls[o] # Nil}
Listed == {m \in Modules : list[m] # Nil}

(***************************************************************************)
(* Method lookup: the object, then its class, then __index upwards.        *)
(***************************************************************************)
InClass(c, k) ==
    LET definers == {i \in 1..Len(c) : k \in Defs[c[i][1]][c[i][2]]}
    IN  IF definers = {} THEN Nil
        ELSE c[CHOOSE i \in definers : \A j \in definers : i <= j]

Lookup(fns, c, k) == IF fns[k] # Nil THEN fns[k] ELSE InClass(c, k)

Resolve(o, k) == Lookup(own[o], cls[o], k)

(***************************************************************************)
(* require(m), ll_require with the loader of luaL_loadfilex: nothing to do *)
(* when it is loaded; otherwise the file runs and its import of the super  *)
(* class requires that one, and so on until a module that is loaded.       *)
(***************************************************************************)
Reads(pl, m) ==
    {i \in 1..Len(Chain[m]) : \A j \in 1..i : pl[Chain[m][j]] = Nil}

(* One bad file fails them all, before any has been entered in             *)
(* package.loaded.                                                         *)
Loads(pl, m) == \A i \in Reads(pl, m) : disk[Chain[m][i]].ok

ClassOf(pl, m, i) ==
    LET fresh == Cardinality(Reads(pl, m))
        File(j) == <<Chain[m][j], disk[Chain[m][j]].ver>>
    IN  [j \in 1..(fresh + 1 - i) |-> File(i + j - 1)] \o
            (IF fresh < Len(Chain[m]) THEN pl[Chain[m][fresh + 1]] ELSE << >>)

Require(pl, m) ==
    [n \in Modules |->
        IF \E i \in Reads(pl, m) : Chain[m][i] = n
        THEN ClassOf(pl, m, CHOOSE i \in Reads(pl, m) : Chain[m][i] = n)
        ELSE pl[n]]

Unloaded(m) == [loaded EXCEPT ![m] = Nil]

(***************************************************************************)
(* The files' first versions are loaded when the service's main chunk      *)
(* imports them into the locals it later makes objects from.               *)
(***************************************************************************)
FirstClass(m) == [j \in 1..Len(Chain[m]) |-> <<Chain[m][j], 1>>]

Init ==
    /\ disk = [m \in Modules |-> [ver |-> 1, ok |-> TRUE]]
    /\ loaded = [m \in Modules |-> FirstClass(m)]
    /\ open = TRUE
    /\ list = [m \in Modules |-> Nil]
    /\ cls = [o \in Objects |-> Nil]
    /\ own = [o \in Objects |-> NoFns]
    /\ bound = [o \in Objects |-> Nil]
    /\ todo = {}
    /\ running = FALSE
    /\ edited = {}
    /\ skipped = {}

\* The operator saves a new version of a file.
Edit(m) ==
    /\ disk[m].ver < MaxVer
    /\ \E good \in {TRUE, ~Broken} :
           disk' = [disk EXCEPT ![m] = [ver |-> disk[m].ver + 1, ok |-> good]]
    /\ edited' = IF running THEN edited \cup {m} ELSE edited
    /\ UNCHANGED <<loaded, open, list, cls, own, bound, todo, running, skipped>>

(***************************************************************************)
(* cls.new(): the constructor registers the object's handlers when the     *)
(* class has a register(); one that has none may still hand out a handler, *)
(* as manager_service.lua does with message_dispatch:dispatch().  addObject*)
(* is called for the class's module and then once per ancestor, every time *)
(* with the module of the direct super class.                              *)
(***************************************************************************)
AddTo(c) == {c[i][1] : i \in 1..(IF Len(c) > 1 THEN 2 ELSE 1)}

Added(o, mods) ==
    [m \in Modules |->
        IF open /\ m \in mods
        THEN (IF list[m] = Nil THEN {} ELSE list[m]) \cup {o}
        ELSE list[m]]

New(o, c) ==
    /\ cls[o] = Nil
    /\ cls' = [cls EXCEPT ![o] = c]
    /\ own' = [own EXCEPT ![o] = NoFns]
    /\ \E handed \in BOOLEAN :
           bound' = [bound EXCEPT ![o] =
                        IF InClass(c, Register) # Nil \/ handed
                        THEN [k \in Methods |-> InClass(c, k)] ELSE Nil]
    /\ list' = Added(o, AddTo(c))

\* An object made from a class kept in a local since the service started.
NewFromLocal(o, m) ==
    /\ ~running
    /\ New(o, FirstClass(m))
    /\ UNCHANGED <<disk, loaded, open, todo, running, edited, skipped>>

\* An object made from import(m), which loads the file if it has to.
NewFromImport(o, m) ==
    /\ ~running
    /\ Loads(loaded, m)
    /\ loaded' = Require(loaded, m)
    /\ New(o, loaded'[m])
    /\ UNCHANGED <<disk, open, todo, running, edited, skipped>>

\* The collector takes an object no handler refers to; the weak tables of
\* module_list forget it.
Collect(o) ==
    /\ ~running
    /\ cls[o] # Nil /\ bound[o] = Nil
    /\ cls' = [cls EXCEPT ![o] = Nil]
    /\ own' = [own EXCEPT ![o] = NoFns]
    /\ list' = [m \in Modules |-> IF list[m] = Nil THEN Nil ELSE list[m] \ {o}]
    /\ UNCHANGED <<disk, loaded, open, bound, todo, running, edited, skipped>>

Start ==
    /\ ~running /\ ~open
    /\ open' = TRUE
    /\ UNCHANGED <<disk, loaded, list, cls, own, bound, todo, running, edited, skipped>>

Close ==
    /\ Closing /\ ~running /\ open
    /\ open' = FALSE
    /\ UNCHANGED <<disk, loaded, list, cls, own, bound, todo, running, edited, skipped>>

\* Faulty form of Patched: only functions found in the class, never one an
\* earlier hotfix put on the object, are replaced.
Patched_FirstTime(m, ver) ==
    [o \in Objects |-> [k \in Methods |->
        IF o \in list[m] /\ k \in Defs[m][ver] /\ Resolve(o, k) # Nil
             /\ own[o][k] = Nil
        THEN <<m, ver>> ELSE own[o][k]]]

\* Faulty form of Registered: the objects register before they are updated.
Registered_TooEarly(m, fns) ==
    [o \in Objects |->
        IF o \in list[m] /\ Resolve(o, Register) # Nil
        THEN [k \in Methods |-> Resolve(o, k)] ELSE bound[o]]

(***************************************************************************)
(* The body shared by both branches of hotfixFile once the new module is   *)
(* there: its functions go to every listed object that already answers to  *)
(* the name, then every listed object with a register() registers again.   *)
(***************************************************************************)
Patched(m, ver) ==
    [o \in Objects |-> [k \in Methods |->
        IF o \in list[m] /\ k \in Defs[m][ver] /\ Resolve(o, k) # Nil
        THEN <<m, ver>> ELSE own[o][k]]]

Registered(m, fns) ==
    [o \in Objects |->
        IF o \in list[m] /\ Lookup(fns[o], cls[o], Register) # Nil
        THEN [k \in Methods |-> Lookup(fns[o], cls[o], k)] ELSE bound[o]]

Apply(m) ==
    /\ own' = Patched(m, disk[m].ver)
    /\ bound' = Registered(m, own')

\* hotfixFile(""): the loop over every module that ever had an object.
HotfixAll ==
    /\ ~running /\ open
    /\ running' = TRUE
    /\ todo' = Listed
    /\ UNCHANGED <<disk, loaded, open, list, cls, own, bound, edited, skipped>>

\* Faulty form of Visit: package.loaded is not cleared, so that require
\* answers with the old class.
Visit_StillLoaded(m) ==
    /\ running /\ m \in todo
    /\ loaded[m] # Nil
    /\ own' = Patched(m, loaded[m][1][2])
    /\ bound' = Registered(m, own')
    /\ todo' = todo \ {m}
    /\ UNCHANGED <<disk, loaded, open, list, cls, running, edited, skipped>>

\* One turn of the loop, at whichever key pairs() yields next.
Visit(m) ==
    /\ running /\ m \in todo
    /\ loaded[m] # Nil
    /\ Loads(Unloaded(m), m)
    /\ loaded' = Require(Unloaded(m), m)
    /\ Apply(m)
    /\ todo' = todo \ {m}
    /\ UNCHANGED <<disk, open, list, cls, running, edited, skipped>>

\* The turn for a module that package.loaded does not have: nothing.
VisitSkip(m) ==
    /\ running /\ m \in todo
    /\ loaded[m] = Nil
    /\ todo' = todo \ {m}
    /\ skipped' = skipped \cup {m}
    /\ UNCHANGED <<disk, loaded, open, list, cls, own, bound, running, edited>>

\* The turn whose require fails: the error leaves the loop, with the module
\* no longer loaded.
VisitFails(m) ==
    /\ running /\ m \in todo
    /\ loaded[m] # Nil
    /\ ~Loads(Unloaded(m), m)
    /\ loaded' = Unloaded(m)
    /\ todo' = {}
    /\ running' = FALSE
    /\ edited' = {} /\ skipped' = {}
    /\ UNCHANGED <<disk, open, list, cls, own, bound>>

\* The loop is over and reported as complete.
HotfixDone ==
    /\ running /\ todo = {}
    /\ running' = FALSE
    /\ edited' = {} /\ skipped' = {}
    /\ UNCHANGED <<disk, loaded, open, list, cls, own, bound, todo>>

\* hotfixFile(m).  With no object ever made, pairs(nil) raises an error, but
\* by then require has loaded the new file.
HotfixOne(m) ==
    /\ ~running /\ open
    /\ loaded[m] # Nil
    /\ Loads(Unloaded(m), m)
    /\ loaded' = Require(Unloaded(m), m)
    /\ IF m \in Listed THEN Apply(m) ELSE UNCHANGED <<own, bound>>
    /\ UNCHANGED <<disk, open, list, cls, todo, running, edited, skipped>>

HotfixOneFails(m) ==
    /\ ~running /\ open
    /\ loaded[m] # Nil
    /\ ~Loads(Unloaded(m), m)
    /\ loaded' = Unloaded(m)
    /\ UNCHANGED <<disk, open, list, cls, own, bound, todo, running, edited, skipped>>

Pass ==
    \/ HotfixAll
    \/ \E m \in Modules : Visit(m) \/ VisitSkip(m) \/ VisitFails(m)
    \/ HotfixDone

Next ==
    \/ \E m \in Modules : Edit(m) \/ HotfixOne(m) \/ HotfixOneFails(m)
    \/ \E o \in Objects, m \in Modules : NewFromLocal(o, m) \/ NewFromImport(o, m)
    \/ \E o \in Objects : Collect(o)
    \/ Start \/ Close
    \/ Pass

Spec == Init /\ [][Next]_vars

\* The operator keeps running hotfix.py, and a loop that began goes on.
FairSpec == Spec /\ WF_vars(Pass)

-----------------------------------------------------------------------------
(***************************************************************************)
(* Properties.                                                             *)
(***************************************************************************)
\* The message handlers of an object that has a register() are the methods
\* the object would run now: no edit, hotfix (of one file, of all, or one
\* that failed half way) or new object leaves an old function in the
\* dispatch table (Hotfix.lua 55-59, 85-89).
HandlersCurrent ==
    TypeOK /\
    \A o \in Live :
        Resolve(o, Register) # Nil =>
            bound[o] = [k \in Methods |-> Resolve(o, k)]

\* The functions o may answer k with when it is up to date with the modules
\* of mods: those of the given versions.  There are two when a class and its
\* super class define k, and pairs() decides between them.
Latest(o, k, mods, ver) ==
    {<<m, ver[m]>> : m \in {n \in mods : o \in list[n] /\ k \in Defs[n][ver[n]]}}

\* What the module table says is what the objects run: when the loop over
\* all modules ends, no listed object answers a method of a file the loop
\* came to with a function older than the version now loaded, whatever was
\* edited between two loads, in whatever order pairs() went and whatever
\* earlier hotfixes failed (Hotfix.lua 40-62).  The methods of a module that
\* the loop passed over are exempt: a subclass visited later may have loaded
\* it again.
LoadedIsRun ==
    [][HotfixDone =>
        LET ver == [m \in Modules |-> IF loaded[m] = Nil THEN 1 ELSE loaded[m][1][2]]
        IN  \A o \in Live, k \in Methods :
                LET fns == Latest(o, k, Listed \ skipped, ver)
                IN  fns # {} => Resolve(o, k) \in fns \cup {Nil}]_vars

\* The object runs a function older than the file on disk, although hotfix
\* is open and each file that lists it is loaded and loads.
Behind(o) ==
    LET ver == [m \in Modules |-> disk[m].ver]
    IN  /\ open
        /\ \A m \in Listed : o \in list[m] => loaded[m] # Nil /\ disk[m].ok
        /\ \E k \in Methods :
               LET fns == Latest(o, k, Listed, ver)
               IN  fns # {} /\ Resolve(o, k) \notin fns \cup {Nil}

\* No object stays behind for ever: repeated hotfixes bring it to the
\* versions on disk, unless it is collected first, and even when it was made
\* after the edit from an old class table (README.md 5-12).
NoneStaysBehind == \A o \in Objects : []<>(o \notin Live \/ ~Behind(o))

\* A hotfix that reports completion has brought every listed object to the
\* version of its file that was on disk when it began and still is, if that
\* file loads (Hotfix.lua 63, README.md 8-12).
DoneMeansUpdated ==
    [][HotfixDone =>
        \A o \in Live, k \in Methods, m \in Listed :
            /\ o \in list[m] /\ k \in Defs[m][disk[m].ver]
            /\ disk[m].ok /\ m \notin edited
            => Resolve(o, k) \notin {<<m, v>> : v \in 1..(disk[m].ver - 1)}]_vars

=============================================================================

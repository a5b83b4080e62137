--------------------------- MODULE HotfixRollout ----------------------------
(***************************************************************************)
(* Rolling a changed file out to a running node: the tool hotfix.py talks  *)
(* to the debug console (list, clearcache, call), services load the file   *)
(* through the code cache that all Lua states of the node share            *)
(* (luaL_loadfilex, with load and save), and the launcher keeps starting   *)
(* services meanwhile (module Launcher).                                   *)
(*                                                                         *)
(* One file is followed; its content is a version number.  The services    *)
(* that main.lua launches run it, the unique ones do not.  What the update *)
(* does inside a service is module Hotfix.                                 *)
(***************************************************************************)
EXTENDS Launcher

CONSTANTS
    MaxVersion   \* bound: versions of the file

ASSUME RolloutAssumption == MaxVersion \in Nat \ {0}

VARIABLES
    disk,      \* the version of the file on disk
    cache,     \* the version in the code cache, 0 if none
    load,      \* a service is about to look into the cache ("load"), has read
               \* the file and not yet saved it ("save"), or does neither
    version,   \* the version a service runs
    read,      \* the version a service has read from disk and not yet saved
    tool,      \* what hotfix.py does next
    list       \* the services it still has to call

loading == <<cache, load, version, read>>
script == <<tool, list>>
vars == <<launchVars, disk, loading, script>>

RunsFile(s) == owner[s] \notin Names

Init ==
    /\ LaunchInit
    /\ disk = 1
    /\ cache = 1
    /\ load = [s \in Services |-> "no"]
    /\ version = [s \in Services |-> IF s \in Started THEN 1 ELSE 0]
    /\ read = [s \in Services |-> 0]
    /\ tool = "off"
    /\ list = <<>>

-----------------------------------------------------------------------------
(* The code cache and the services *)

\* luaL_loadfilex: a cached prototype is cloned, else the file is read
Load(s) ==
    /\ load[s] = "load"
    /\ \/ /\ cache # 0
          /\ version' = [version EXCEPT ![s] = cache]
          /\ load' = [load EXCEPT ![s] = "no"]
          /\ UNCHANGED read
       \/ /\ cache = 0
          /\ read' = [read EXCEPT ![s] = disk]
          /\ load' = [load EXCEPT ![s] = "save"]
          /\ UNCHANGED version
    /\ UNCHANGED <<launchVars, disk, cache, script>>

\* save: the first prototype stored for the file wins
Save(s) ==
    /\ load[s] = "save"
    /\ cache' = IF cache = 0 THEN read[s] ELSE cache
    /\ version' = [version EXCEPT ![s] = cache']
    /\ load' = [load EXCEPT ![s] = "no"]
    /\ read' = [read EXCEPT ![s] = 0]
    /\ UNCHANGED <<launchVars, disk, script>>

\* A step of the launcher, its callers or its services: a new service that
\* runs the file begins with loading it, and does nothing else meanwhile.
InNode(A) ==
    /\ A
    /\ \A s \in Services : load[s] # "no" => state'[s] = state[s]
    /\ load' = [s \in Services |->
                   IF s \in Absent /\ state'[s] = "boot" /\ RunsFile(s)' THEN "load" ELSE load[s]]
    /\ UNCHANGED <<disk, cache, version, read, script>>

Node == InNode(LaunchNext)

\* the developer saves the file
Edit ==
    /\ disk < MaxVersion
    /\ disk' = disk + 1
    /\ UNCHANGED <<launchVars, loading, script>>

-----------------------------------------------------------------------------
(* hotfix.py *)

\* connect
Start ==
    /\ tool = "off"
    /\ tool' = "list"
    /\ UNCHANGED <<launchVars, disk, loading, list>>

\* list: the services of the launcher's table that have the right name, in
\* some order; with none there is nothing to do
List ==
    /\ tool = "list"
    /\ \E l \in SetToSeqs({s \in services : RunsFile(s)}) : list' = l
    /\ tool' = IF list' = <<>> THEN "done" ELSE "clear"
    /\ UNCHANGED <<launchVars, disk, loading>>

\* Faulty form: the cache is left as it is.
ClearCache_Skipped ==
    /\ tool = "clear"
    /\ tool' = "call"
    /\ UNCHANGED <<launchVars, disk, loading, list>>

\* clearcache
ClearCache ==
    /\ tool = "clear"
    /\ cache' = 0
    /\ tool' = "call"
    /\ UNCHANGED <<launchVars, disk, load, version, read, list>>

\* the next service of the list takes a message: it is not in the middle of
\* another, which is its main chunk, a load or skynet.exit
TakesCall ==
    /\ tool = "call"
    /\ list # <<>>
    /\ load[Head(list)] = "no"
    /\ Head(list) \notin retired

\* call: the service loads the file again
Call ==
    /\ TakesCall
    /\ state[Head(list)] = "up"
    /\ load' = [load EXCEPT ![Head(list)] = "load"]
    /\ tool' = "reply"
    /\ UNCHANGED <<launchVars, disk, cache, version, read, list>>

\* the start function, which sets the dispatch of "lua" and ends in the same
\* callback, has not run: the service answers PTYPE_ERROR, the console
\* <CMD Error>, and the tool reads on for <CMD OK>
CallRefused ==
    /\ TakesCall
    /\ state[Head(list)] = "boot"
    /\ tool' = "stuck"
    /\ UNCHANGED <<launchVars, disk, loading, list>>

\* the console answers <CMD OK>
Reply ==
    /\ tool = "reply"
    /\ load[Head(list)] = "no"
    /\ list' = Tail(list)
    /\ tool' = "call"
    /\ UNCHANGED <<launchVars, disk, loading>>

\* the service is gone: the console answers <CMD Error>, or it waits for the
\* answer of a service that was killed; the tool reads on for <CMD OK>
CallFails ==
    /\ tool \in {"call", "reply"}
    /\ list # <<>>
    /\ Head(list) \in retired
    /\ tool' = "stuck"
    /\ UNCHANGED <<launchVars, disk, loading, list>>

\* the loop over the list is over: can_close
Finish ==
    /\ tool = "call"
    /\ list = <<>>
    /\ tool' = "done"
    /\ UNCHANGED <<launchVars, disk, loading, list>>

\* two seconds are over: the main thread closes the sockets, done or not
Cut ==
    /\ tool \in {"list", "clear", "call", "reply"}
    /\ Fault
    /\ tool' = "done"
    /\ UNCHANGED <<launching, disk, loading, list>>

\* a stuck tool ends with those two seconds too
GiveUp ==
    /\ tool = "stuck"
    /\ tool' = "done"
    /\ UNCHANGED <<launchVars, disk, loading, list>>

\* the process ends
Close ==
    /\ tool = "done"
    /\ tool' = "off"
    /\ list' = <<>>
    /\ UNCHANGED <<launchVars, disk, loading>>

Script ==
    \/ Start \/ List \/ ClearCache \/ Call \/ Reply \/ CallRefused \/ CallFails
    \/ Finish \/ GiveUp \/ Close

-----------------------------------------------------------------------------

Next ==
    \/ Node
    \/ \E s \in Services : Load(s) \/ Save(s)
    \/ Script \/ Cut \/ Edit

Spec == Init /\ [][Next]_vars

Runs(s) == s \notin retired

\* The launcher takes its messages, a start function and a load that began
\* end in a service that is not killed, and whoever runs the tool runs it to
\* its end, again and again.
FairSpec ==
    /\ Spec
    /\ WF_vars(InNode(Serve))
    /\ \A s \in Services :
        /\ WF_vars(Runs(s) /\ (Load(s) \/ Save(s)))
        /\ WF_vars(Runs(s) /\ InNode(InitOk(s) \/ Retire(s)))
    /\ WF_vars(Script)

-----------------------------------------------------------------------------
(* Properties *)

\* Type invariant of the node and the tool.
TypeOK ==
    /\ LaunchTypeOK
    /\ disk \in 1..MaxVersion
    /\ cache \in 0..MaxVersion
    /\ load \in [Services -> {"no", "load", "save"}]
    /\ version \in [Services -> 0..MaxVersion]
    /\ read \in [Services -> 0..MaxVersion]
    /\ tool \in {"off", "list", "clear", "call", "reply", "stuck", "done"}
    /\ ToSet(list) \subseteq Services
    /\ \A s \in Services : read[s] # 0 <=> load[s] = "save"

\* Whatever raced with one run of the tool, running it again brings every
\* service to the version on disk, once edits, launches, exits, kills and
\* cuts have stopped.
Converges ==
    <>[](\A s \in Alive : state[s] = "up" /\ load[s] = "no" /\ RunsFile(s) => version[s] = disk)

=============================================================================

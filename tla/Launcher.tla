------------------------------ MODULE Launcher ------------------------------
(***************************************************************************)
(* Starting a Lua service: the launcher (launcher.lua), which answers      *)
(* skynet.newservice when the new service reports that its start function  *)
(* is over, and the service manager (service_mgr.lua), which starts a      *)
(* service of a given name once and makes the others that ask for it wait. *)
(*                                                                         *)
(* The launcher takes one message at a time from its mailbox and no        *)
(* handler of it that is modelled waits, so each is one action.  A caller  *)
(* of newservice (an asker) is main.lua or the service manager on behalf   *)
(* of a name.  The requests to the service manager need no mailbox: each   *)
(* client has one outstanding, and they may come in any order.             *)
(***************************************************************************)
EXTENDS Integers, FiniteSets, Sequences, SequencesExt

CONSTANTS
    Services,   \* services that run, now or later
    Started,    \* those that run when the behaviour begins
    Main,       \* main.lua, which calls newservice in a loop
    Names,      \* names of unique services
    Clients,    \* coroutines that ask the service manager once
    Quotas,     \* bounds: how many launches each asker may want, and how many
                \* faults (exits, kills, failures) there may be, in a behaviour
    Nil

Askers == Names \cup {Main}

ASSUME LauncherAssumption ==
    /\ IsFiniteSet(Services)
    /\ Started \subseteq Services
    /\ Main \notin Names
    /\ Nil \notin Services \cup Askers
    /\ Services \cap Askers = {}
    /\ {"idle", "error", "query", "launch", "fault"} \cap (Services \cup Askers \cup {Nil}) = {}
    /\ Quotas \subseteq [Askers \cup {"fault"} -> Nat]
    /\ \A q \in Quotas : SumFunctionOnSet(q, Askers) <= Cardinality(Services \ Started)

VARIABLES
    box,       \* the launcher's mailbox, oldest first
    services,  \* keys of the launcher's table services
    instance,  \* keys of its table instance: the caller is not answered yet
    state,     \* of a service: absent, boot, up, or exit (it has sent REMOVE)
    ready,     \* services whose start function has returned
    retired,   \* services whose handle is retired
    owner,     \* the asker a service was launched for
    asking,    \* askers that wait for newservice
    entry,     \* service[name]: Nil, a handle, "error", or a table of waiting
               \* clients, with the flag launch ("launch") or not ("query")
    client,    \* a client is idle, waits for a name, has a handle or an error
    quota      \* what is left of the bounds of this behaviour

mgr == <<asking, entry, client>>
table == <<services, instance, owner>>
life == <<state, ready, retired>>
launching == <<box, table, life, mgr>>
launchVars == <<launching, quota>>

Note(c, w) == [cmd |-> c, who |-> w]

Absent == {s \in Services : state[s] = "absent"}
Alive == Services \ (Absent \cup retired)

LaunchInit ==
    /\ box = <<>>
    /\ services = Started
    /\ instance = {}
    /\ state = [s \in Services |-> IF s \in Started THEN "up" ELSE "absent"]
    /\ ready = Started
    /\ retired = {}
    /\ owner = [s \in Services |-> Nil]
    /\ asking = {}
    /\ entry = [n \in Names |-> Nil]
    /\ client = [c \in Clients |-> "idle"]
    /\ quota \in Quotas

Uses(k) == quota[k] > 0 /\ quota' = [quota EXCEPT ![k] = @ - 1]
Fault == Uses("fault")

\* skynet.newservice sends LAUNCH and waits
Ask(a) ==
    /\ Uses(a)
    /\ asking' = asking \cup {a}
    /\ box' = Append(box, Note("LAUNCH", a))

-----------------------------------------------------------------------------
(* The callers: main.lua, and the service manager *)

\* the loop of main.lua
NewService ==
    /\ Main \notin asking
    /\ Ask(Main)
    /\ UNCHANGED <<table, life, entry, client>>

\* Faulty form: the flag launch is not looked at.
IsFree_Always(n) == entry[n] \in {Nil, "query", "launch"}

\* nobody launches the service of this name yet
IsFree(n) == entry[n] \in {Nil, "query"}

\* cmd.LAUNCH: waitfor(name, skynet.newservice)
Unique(c, n) ==
    /\ client[c] = "idle"
    /\ \/ /\ IsFree(n)
          /\ Ask(n)
          /\ entry' = [entry EXCEPT ![n] = "launch"]
          /\ client' = [client EXCEPT ![c] = n]
       \/ /\ ~IsFree(n)
          /\ client' = [client EXCEPT ![c] = IF entry[n] = "launch" THEN n ELSE entry[n]]
          /\ UNCHANGED <<box, asking, entry, quota>>
    /\ UNCHANGED <<table, life>>

\* cmd.QUERY: waitfor(name)
Query(c, n) ==
    /\ client[c] = "idle"
    /\ entry[n] # Nil \/ quota[n] > 0   \* bound
    /\ entry' = [entry EXCEPT ![n] = IF @ = Nil THEN "query" ELSE @]
    /\ client' = [client EXCEPT ![c] = IF entry'[n] \in {"query", "launch"} THEN n ELSE entry[n]]
    /\ UNCHANGED <<box, asking, table, life, quota>>

\* newservice returns r to a: a handle, nil (the service has exited), or an
\* error.  In the service manager request() stores it and wakes the clients
\* that wait; all but a handle is an error to them.
Answered(a, r) ==
    /\ asking' = asking \ {a}
    /\ entry' = [n \in Names |-> IF n = a THEN r ELSE entry[n]]
    /\ client' = [c \in Clients |->
                     IF client[c] # a THEN client[c] ELSE IF r = Nil THEN "error" ELSE r]

-----------------------------------------------------------------------------
(* The launcher *)

\* the message that is handled
Now == Head(box)

Takes(cmd) == box # <<>> /\ Now.cmd = cmd

\* The caller of newservice for s gets r, if it has had no answer yet.
Respond(s, r) ==
    /\ instance' = instance \ {s}
    /\ IF s \in instance THEN Answered(owner[s], r) ELSE UNCHANGED mgr
    /\ UNCHANGED owner

\* command.LAUNCH: skynet.launch gives a handle ...
LAUNCH(s) ==
    /\ Takes("LAUNCH")
    /\ s \in Absent
    /\ box' = Tail(box)
    /\ state' = [state EXCEPT ![s] = "boot"]
    /\ services' = services \cup {s}
    /\ instance' = instance \cup {s}
    /\ owner' = [owner EXCEPT ![s] = Now.who]
    /\ UNCHANGED <<ready, retired, mgr, quota>>

\* ... or it does not
LaunchFails ==
    /\ Takes("LAUNCH")
    /\ Fault
    /\ box' = Tail(box)
    /\ Answered(Now.who, "error")
    /\ UNCHANGED <<table, life>>

LAUNCHOK ==
    /\ Takes("LAUNCHOK")
    /\ box' = Tail(box)
    /\ Respond(Now.who, Now.who)
    /\ UNCHANGED <<services, life, quota>>

\* Faulty form: a service that failed stays in the table.
Gone_Listed(s) == services

\* services[handle] = nil
Gone(s) == services \ {s}

ERROR ==
    /\ Takes("ERROR")
    /\ box' = Tail(box)
    /\ services' = Gone(Now.who)
    /\ Respond(Now.who, "error")
    /\ UNCHANGED <<life, quota>>

\* Faulty form: REMOVE is about the table services alone.
REMOVE_NoResponse ==
    /\ box # <<>> /\ Now.cmd \in {"REMOVE", "KILLED"}
    /\ box' = Tail(box)
    /\ services' = Gone(Now.who)
    /\ UNCHANGED <<instance, owner, mgr, life, quota>>

\* REMOVE(handle, kill), where KILLED stands for kill = true
REMOVE ==
    /\ box # <<>> /\ Now.cmd \in {"REMOVE", "KILLED"}
    /\ box' = Tail(box)
    /\ services' = Gone(Now.who)
    /\ Respond(Now.who, IF Now.cmd = "KILLED" THEN "error" ELSE Nil)
    /\ UNCHANGED <<life, quota>>

\* command.KILL, whose request may come at any moment: skynet.kill sends
\* REMOVE to the launcher itself and retires the handle
KILL(s) ==
    /\ s \in services
    /\ Fault
    /\ box' = Append(box, Note("KILLED", s))
    /\ retired' = retired \cup {s}
    /\ services' = Gone(s)
    /\ UNCHANGED <<instance, owner, state, ready, mgr>>

Serve == (\E s \in Services : LAUNCH(s)) \/ LaunchFails \/ LAUNCHOK \/ ERROR \/ REMOVE

-----------------------------------------------------------------------------
(* The services.  One that is killed may still finish the callback it runs. *)

\* init_service: the start function returns
InitOk(s) ==
    /\ state[s] = "boot"
    /\ state' = [state EXCEPT ![s] = "up"]
    /\ ready' = ready \cup {s}
    /\ box' = Append(box, Note("LAUNCHOK", s))
    /\ UNCHANGED <<table, retired, mgr, quota>>

\* the loader fails (ERROR as text, then EXIT), or the start function does
\* (ERROR, then skynet.exit with its REMOVE)
InitFails(s) ==
    /\ state[s] = "boot"
    /\ Fault
    /\ state' = [state EXCEPT ![s] = "exit"]
    /\ \E more \in {<<>>, <<Note("REMOVE", s)>>} : box' = box \o <<Note("ERROR", s)>> \o more
    /\ UNCHANGED <<table, ready, retired, mgr>>

\* skynet.exit, in the start function or later
Exit(s) ==
    /\ state[s] \in {"boot", "up"}
    /\ Fault
    /\ state' = [state EXCEPT ![s] = "exit"]
    /\ box' = Append(box, Note("REMOVE", s))
    /\ UNCHANGED <<table, ready, retired, mgr>>

\* the EXIT command at the end of it
Retire(s) ==
    /\ state[s] = "exit"
    /\ s \notin retired
    /\ retired' = retired \cup {s}
    /\ UNCHANGED <<box, table, state, ready, mgr, quota>>

-----------------------------------------------------------------------------

LaunchNext ==
    \/ NewService \/ Serve
    \/ \E c \in Clients, n \in Names : Unique(c, n) \/ Query(c, n)
    \/ \E s \in Services : KILL(s) \/ InitOk(s) \/ InitFails(s) \/ Exit(s) \/ Retire(s)

-----------------------------------------------------------------------------
(* Properties *)

\* Type invariant of the launcher and its users.
LaunchTypeOK ==
    /\ box \in Seq([cmd : {"LAUNCH", "LAUNCHOK", "ERROR", "REMOVE", "KILLED"}, who : Services \cup Askers])
    /\ services \subseteq Services
    /\ instance \subseteq Services
    /\ state \in [Services -> {"absent", "boot", "up", "exit"}]
    /\ ready \subseteq Services
    /\ retired \subseteq Services
    /\ owner \in [Services -> Askers \cup {Nil}]
    /\ asking \subseteq Askers
    /\ entry \in [Names -> Services \cup {Nil, "error", "query", "launch"}]
    /\ client \in [Clients -> Services \cup Names \cup {"idle", "error"}]
    /\ quota \in [Askers \cup {"fault"} -> Nat]

\* A name has one service.  Whatever starts, fails, exits and kills do to one
\* another, no two services of a name run together (one that has asked for
\* its end may not have ended yet); a client is given a handle only when the
\* start function of that service has returned; a client waits only while
\* somebody is to wake it; and the table that request() asserts is there.
UniqueSound ==
    /\ LaunchTypeOK
    /\ \A s, t \in {x \in Alive : state[x] # "exit"} : owner[s] = owner[t] /\ owner[s] \in Names => s = t
    /\ \A c \in Clients : client[c] \in Services => client[c] \in ready /\ owner[client[c]] \in Names
    /\ \A c \in Clients : client[c] \in Names => entry[client[c]] \in {"query", "launch"}
    /\ \A n \in Names : entry[n] = "launch" <=> n \in asking

\* Every newservice is answered, although the service may fail, exit or be
\* killed at any moment of its start and its messages cross the launcher's own.
EveryLaunchAnswered == \A a \in Askers : []<>(a \notin asking)

\* The table that the console lists comes to hold the services that run and
\* no others.
TableSettles == []<>(services = Alive)

=============================================================================

--------------------------- MODULE LauncherProofs ---------------------------
(***************************************************************************)
(* Proofs about the launcher and the service manager of module Launcher,   *)
(* running in the node of module HotfixRollout, for any number of          *)
(* services, names and clients: a unique service is started once and       *)
(* everybody who asks for it gets it when it is ready (UniqueSound).       *)
(*                                                                         *)
(* The argument follows the request of an asker: it is one LAUNCH in the   *)
(* launcher's mailbox or one service in the table instance, and never      *)
(* both (Requests, Starting).  While it is under way, or before it is made *)
(* (the name is free), no service of the name runs, except the one being   *)
(* started.  A name becomes free again only by the REMOVE of a service     *)
(* that exits before it was ready.                                         *)
(***************************************************************************)
EXTENDS HotfixRollout, TLAPS

\* The messages of the launcher's mailbox.
Notes == [cmd : {"LAUNCH", "LAUNCHOK", "ERROR", "REMOVE", "KILLED"}, who : Services \cup Askers]

\* The services that run and have not asked for their end.
Running == {s \in Alive : state[s] # "exit"}

\* A request to launch is the only one of its asker, and nothing of it runs.
Requests ==
    \A j \in DOMAIN box : box[j].cmd = "LAUNCH" =>
        /\ box[j].who \in asking
        /\ \A k \in DOMAIN box : box[k].cmd = "LAUNCH" /\ box[k].who = box[j].who => k = j
        /\ \A s \in instance : owner[s] # box[j].who
        /\ box[j].who \in Names => \A s \in Running : owner[s] # box[j].who

\* The other messages come from services, and say what is so.
Reports ==
    \A j \in DOMAIN box : box[j].cmd # "LAUNCH" =>
        /\ box[j].who \in Services
        /\ box[j].cmd = "LAUNCHOK" => box[j].who \in ready
        /\ box[j].cmd = "REMOVE" => state[box[j].who] = "exit"

\* A service whose asker waits is the only one the asker waits for, and the
\* only one of its name that runs.
Starting ==
    \A s \in instance :
        /\ owner[s] \in asking
        /\ \A t \in instance : owner[t] = owner[s] => t = s
        /\ owner[s] \in Names => \A t \in Running : owner[t] = owner[s] => t = s

\* A service that is not launched yet is nowhere.
Unborn == \A s \in Services : state[s] = "absent" => s \notin ready \cup instance

\* What the service manager knows of a name.
NamesSound ==
    \A n \in Names :
        /\ \A s, t \in Running : owner[s] = n /\ owner[t] = n => s = t
        /\ IsFree(n) => \A s \in Running : owner[s] # n
        /\ entry[n] \in Services => entry[n] \in ready /\ owner[entry[n]] = n
        /\ entry[n] = "launch" <=> n \in asking

\* What its clients have been told.
ClientsSound ==
    \A c \in Clients :
        /\ client[c] \in Services => client[c] \in ready /\ owner[client[c]] \in Names
        /\ client[c] \in Names => entry[client[c]] \in {"query", "launch"}

\* The inductive invariant.
LaunchInv ==
    /\ LaunchTypeOK /\ Requests /\ Reports /\ Starting /\ Unborn
    /\ NamesSound /\ ClientsSound
-----------------------------------------------------------------------------
(* The mailbox *)

\* The parts of the state are told apart.
LEMMA Distinct ==
    /\ \A a \in Askers : a \notin Services /\ a # Nil
          /\ a \notin {"idle", "error", "query", "launch", "fault"}
    /\ \A s \in Services : s # Nil /\ s \notin {"idle", "error", "query", "launch", "fault"}
    /\ Nil \notin {"idle", "error", "query", "launch", "fault"}
    /\ Names \subseteq Askers /\ Main \in Askers /\ Main \notin Names
<1>1. /\ Services \cap Askers = {} /\ Nil \notin Services \cup Askers /\ Main \notin Names
      /\ {"idle", "error", "query", "launch", "fault"} \cap (Services \cup Askers \cup {Nil}) = {}
    BY LauncherAssumption
<1> QED BY <1>1 DEF Askers

\* Taking the first message moves the others one place.
LEMMA Popped ==
    ASSUME box \in Seq(Notes), box # << >>, box' = Tail(box)
    PROVE  /\ box' \in Seq(Notes)
           /\ 1 \in DOMAIN box /\ Now = box[1] /\ Now \in Notes
           /\ \A j \in DOMAIN box' : j \in Nat /\ j + 1 \in DOMAIN box
                                     /\ box'[j] = box[j + 1] /\ j + 1 # 1
<1>1. Len(box) \in Nat \ {0} /\ DOMAIN box = 1..Len(box)
    OBVIOUS
<1>2. box' \in Seq(Notes) /\ Len(box') = Len(box) - 1
      /\ \A j \in 1..Len(box') : box'[j] = box[j + 1]
    OBVIOUS
<1>3. DOMAIN box' = 1..(Len(box) - 1)
    BY <1>2
<1>4. Now = box[1] /\ box[1] \in Notes
    BY <1>1 DEF Now
<1>5. \A j \in DOMAIN box' : j \in Nat /\ j + 1 \in DOMAIN box /\ box'[j] = box[j + 1] /\ j + 1 # 1
    BY <1>1, <1>2, <1>3
<1> QED BY <1>1, <1>2, <1>4, <1>5

\* Messages are added at the end.
LEMMA Added ==
    ASSUME box \in Seq(Notes), NEW more \in Seq(Notes), box' = box \o more
    PROVE  /\ box' \in Seq(Notes)
           /\ \A j \in DOMAIN box' :
                 \/ j \in DOMAIN box /\ box'[j] = box[j]
                 \/ \E k \in DOMAIN more : box'[j] = more[k] /\ j = Len(box) + k
           /\ \A j \in DOMAIN box : j # Len(box) + 1
<1>1. Len(box) \in Nat /\ DOMAIN box = 1..Len(box) /\ Len(more) \in Nat /\ DOMAIN more = 1..Len(more)
    OBVIOUS
<1>2. box' \in Seq(Notes) /\ DOMAIN box' = 1..(Len(box) + Len(more))
    BY <1>1
<1>3. \A j \in 1..(Len(box) + Len(more)) :
         box'[j] = IF j <= Len(box) THEN box[j] ELSE more[j - Len(box)]
    BY <1>1
<1>4. ASSUME NEW j \in DOMAIN box'
      PROVE  \/ j \in DOMAIN box /\ box'[j] = box[j]
             \/ \E k \in DOMAIN more : box'[j] = more[k] /\ j = Len(box) + k
    <2>1. CASE j <= Len(box)
        BY <1>1, <1>2, <1>3, <1>4, <2>1
    <2>2. CASE ~(j <= Len(box))
        <3>1. j - Len(box) \in DOMAIN more /\ j = Len(box) + (j - Len(box))
            BY <1>1, <1>2, <1>4, <2>2
        <3>2. box'[j] = more[j - Len(box)]
            BY <1>2, <1>3, <1>4, <2>2
        <3> QED BY <3>1, <3>2
    <2> QED BY <2>1, <2>2
<1> QED BY <1>1, <1>2, <1>4

\* What is in the mailbox is a message.
LEMMA BoxTyped == LaunchTypeOK <=> (/\ box \in Seq(Notes)
    /\ services \subseteq Services
    /\ instance \subseteq Services
    /\ state \in [Services -> {"absent", "boot", "up", "exit"}]
    /\ ready \subseteq Services
    /\ retired \subseteq Services
    /\ owner \in [Services -> Askers \cup {Nil}]
    /\ asking \subseteq Askers
    /\ entry \in [Names -> Services \cup {Nil, "error", "query", "launch"}]
    /\ client \in [Clients -> Services \cup Names \cup {"idle", "error"}]
    /\ quota \in [Askers \cup {"fault"} -> Nat])
    BY DEF LaunchTypeOK, Notes

\* Spending from the bounds.
LEMMA Spent ==
    ASSUME LaunchTypeOK, NEW k \in Askers \cup {"fault"}, Uses(k)
    PROVE  quota' \in [Askers \cup {"fault"} -> Nat]
    BY DEF LaunchTypeOK, Uses

\* Fewer services run when they only end.
LEMMA RunningShrinks ==
    ASSUME LaunchTypeOK, UNCHANGED owner, retired \subseteq retired',
           \A s \in Services : /\ state'[s] = "absent" <=> state[s] = "absent"
                               /\ state[s] = "exit" => state'[s] = "exit"
    PROVE  Running' \subseteq Running
    BY DEF Running, Alive, Absent

-----------------------------------------------------------------------------
(* The services *)

\* A service starts, fails, exits, is killed or retired, and says so.
LEMMA ServiceStep ==
    ASSUME LaunchInv, NEW more \in Seq(Notes), box' = box \o more,
           \A j \in DOMAIN more :
               /\ more[j].cmd # "LAUNCH" /\ more[j].who \in Services
               /\ more[j].cmd = "LAUNCHOK" => more[j].who \in ready'
               /\ more[j].cmd = "REMOVE" => state'[more[j].who] = "exit",
           UNCHANGED <<instance, owner, asking, entry, client>>,
           services' \subseteq Services,
           state' \in [Services -> {"absent", "boot", "up", "exit"}],
           \A s \in Services : /\ state'[s] = "absent" <=> state[s] = "absent"
                               /\ state[s] = "exit" => state'[s] = "exit",
           ready \subseteq ready', \A s \in ready' : s \in Services /\ state'[s] # "absent",
           retired \subseteq retired', retired' \subseteq Services,
           quota' \in [Askers \cup {"fault"} -> Nat]
    PROVE  LaunchInv'
<1>1. LaunchTypeOK /\ Requests /\ Reports /\ Starting /\ Unborn /\ NamesSound /\ ClientsSound
    BY DEF LaunchInv
<1>2. box \in Seq(Notes)
    BY <1>1, BoxTyped
<1>3. /\ box' \in Seq(Notes)
      /\ \A j \in DOMAIN box' :
             \/ j \in DOMAIN box /\ box'[j] = box[j]
             \/ \E k \in DOMAIN more : box'[j] = more[k]
    BY <1>2, Added
<1>4. Running' \subseteq Running
    BY <1>1, RunningShrinks
<1>5. LaunchTypeOK'
    BY <1>1, <1>3 DEF LaunchTypeOK, Notes
<1>6. Requests'
    <2> SUFFICES ASSUME NEW j \in DOMAIN box', box'[j].cmd = "LAUNCH"
                 PROVE  /\ box'[j].who \in asking
                        /\ \A k \in DOMAIN box' : box'[k].cmd = "LAUNCH" /\ box'[k].who = box'[j].who => k = j
                        /\ \A s \in instance : owner[s] # box'[j].who
                        /\ box'[j].who \in Names => \A s \in Running' : owner[s] # box'[j].who
        BY DEF Requests
    <2>1. ASSUME NEW k \in DOMAIN box', box'[k].cmd = "LAUNCH"
          PROVE  k \in DOMAIN box /\ box'[k] = box[k]
        BY <1>3, <2>1
    <2>2. j \in DOMAIN box /\ box'[j] = box[j]
        BY <2>1
    <2>3. /\ box[j].who \in asking
          /\ \A k \in DOMAIN box : box[k].cmd = "LAUNCH" /\ box[k].who = box[j].who => k = j
          /\ \A s \in instance : owner[s] # box[j].who
          /\ box[j].who \in Names => \A s \in Running : owner[s] # box[j].who
        BY <1>1, <2>2 DEF Requests
    <2>4. \A k \in DOMAIN box' : box'[k].cmd = "LAUNCH" /\ box'[k].who = box'[j].who => k = j
        BY <2>1, <2>2, <2>3
    <2>5. box'[j].who \in Names => \A s \in Running' : owner[s] # box'[j].who
        BY <1>4, <2>2, <2>3
    <2> QED BY <2>2, <2>3, <2>4, <2>5
<1>7. Reports'
    <2> SUFFICES ASSUME NEW j \in DOMAIN box', box'[j].cmd # "LAUNCH"
                 PROVE  /\ box'[j].who \in Services
                        /\ box'[j].cmd = "LAUNCHOK" => box'[j].who \in ready'
                        /\ box'[j].cmd = "REMOVE" => state'[box'[j].who] = "exit"
        BY DEF Reports
    <2>1. CASE j \in DOMAIN box /\ box'[j] = box[j]
        BY <1>1, <2>1 DEF Reports
    <2>2. CASE \E k \in DOMAIN more : box'[j] = more[k]
        BY <2>2
    <2> QED BY <1>3, <2>1, <2>2
<1>8. Starting'
    <2> SUFFICES ASSUME NEW s \in instance
                 PROVE  /\ owner[s] \in asking
                        /\ \A t \in instance : owner[t] = owner[s] => t = s
                        /\ owner[s] \in Names => \A t \in Running' : owner[t] = owner[s] => t = s
        BY DEF Starting
    <2> QED BY <1>1, <1>4 DEF Starting
<1>9. Unborn'
    BY <1>1 DEF Unborn
<1>10. NamesSound'
    <2> SUFFICES ASSUME NEW n \in Names
                 PROVE  /\ \A s, t \in Running' : owner[s] = n /\ owner[t] = n => s = t
                        /\ IsFree(n)' => \A s \in Running' : owner[s] # n
                        /\ entry[n] \in Services => entry[n] \in ready' /\ owner[entry[n]] = n
                        /\ entry[n] = "launch" <=> n \in asking
        BY DEF NamesSound
    <2>1. IsFree(n)' <=> IsFree(n)
        BY DEF IsFree
    <2> QED BY <1>1, <1>4, <2>1 DEF NamesSound
<1>11. ClientsSound'
    BY <1>1 DEF ClientsSound
<1> QED BY <1>5, <1>6, <1>7, <1>8, <1>9, <1>10, <1>11 DEF LaunchInv

-----------------------------------------------------------------------------
(* The launcher *)

\* What is left of the mailbox is as sound as it was.
LEMMA Left ==
    ASSUME LaunchInv, box # << >>, box' = Tail(box), asking' \subseteq asking,
           UNCHANGED <<state, ready, retired, owner>>, instance' \subseteq instance,
           \A j \in DOMAIN box' : box'[j].cmd = "LAUNCH" /\ box'[j].who \in asking =>
                                  box'[j].who \in asking'
    PROVE  Requests' /\ Reports' /\ Running' = Running
<1>1. LaunchTypeOK /\ Requests /\ Reports
    BY DEF LaunchInv
<1>2. /\ box' \in Seq(Notes)
      /\ \A j \in DOMAIN box' : j \in Nat /\ j + 1 \in DOMAIN box /\ box'[j] = box[j + 1]
    BY <1>1, BoxTyped, Popped
<1>3. Running' = Running
    BY DEF Running, Alive, Absent
<1>4. Requests'
    <2> SUFFICES ASSUME NEW j \in DOMAIN box', box'[j].cmd = "LAUNCH"
                 PROVE  /\ box'[j].who \in asking'
                        /\ \A k \in DOMAIN box' : box'[k].cmd = "LAUNCH" /\ box'[k].who = box'[j].who => k = j
                        /\ \A s \in instance' : owner[s] # box'[j].who
                        /\ box'[j].who \in Names => \A s \in Running : owner[s] # box'[j].who
        BY <1>3 DEF Requests
    <2>1. j + 1 \in DOMAIN box /\ box'[j] = box[j + 1]
        BY <1>2
    <2>2. /\ box[j + 1].who \in asking
          /\ \A k \in DOMAIN box : box[k].cmd = "LAUNCH" /\ box[k].who = box[j + 1].who => k = j + 1
          /\ \A s \in instance : owner[s] # box[j + 1].who
          /\ box[j + 1].who \in Names => \A s \in Running : owner[s] # box[j + 1].who
        BY <1>1, <2>1 DEF Requests
    <2>3. ASSUME NEW k \in DOMAIN box', box'[k].cmd = "LAUNCH", box'[k].who = box'[j].who PROVE k = j
        <3>1. k + 1 \in DOMAIN box /\ box'[k] = box[k + 1] /\ k \in Nat /\ j \in Nat
            BY <1>2
        <3>2. k + 1 = j + 1
            BY <2>1, <2>2, <2>3, <3>1
        <3> QED BY <3>1, <3>2
    <2> QED BY <2>1, <2>2, <2>3
<1>5. Reports'
    <2> SUFFICES ASSUME NEW j \in DOMAIN box', box'[j].cmd # "LAUNCH"
                 PROVE  /\ box'[j].who \in Services
                        /\ box'[j].cmd = "LAUNCHOK" => box'[j].who \in ready
                        /\ box'[j].cmd = "REMOVE" => state[box'[j].who] = "exit"
        BY DEF Reports
    <2>1. j + 1 \in DOMAIN box /\ box'[j] = box[j + 1]
        BY <1>2
    <2> QED BY <1>1, <2>1 DEF Reports
<1> QED BY <1>3, <1>4, <1>5

\* An asker gets its answer, and with it the clients that wait.
LEMMA AnswerStep ==
    ASSUME LaunchInv, box # << >>, box' = Tail(box),
           NEW a \in asking, NEW r \in Services \cup {Nil, "error"}, Answered(a, r),
           services' \subseteq Services, UNCHANGED <<state, ready, retired, owner>>,
           instance' \subseteq instance, \A s \in instance' : owner[s] # a,
           \A j \in DOMAIN box' : box'[j].cmd = "LAUNCH" => box'[j].who # a,
           r \in Services => r \in ready /\ owner[r] = a,
           r = Nil /\ a \in Names => \A s \in Running : owner[s] # a,
           quota' \in [Askers \cup {"fault"} -> Nat]
    PROVE  LaunchInv'
<1>1. LaunchTypeOK /\ Starting /\ Unborn /\ NamesSound /\ ClientsSound
    BY DEF LaunchInv
<1>2. /\ asking' = asking \ {a}
      /\ entry' = [n \in Names |-> IF n = a THEN r ELSE entry[n]]
      /\ client' = [c \in Clients |->
                      IF client[c] # a THEN client[c] ELSE IF r = Nil THEN "error" ELSE r]
    BY DEF Answered
<1>3. Requests' /\ Reports' /\ Running' = Running
    BY <1>2, Left
<1>4. a \in Askers
    BY <1>1 DEF LaunchTypeOK
<1>5. LaunchTypeOK'
    <2>1. box' \in Seq(Notes)
        BY <1>1, BoxTyped, Popped
    <2>2. entry' \in [Names -> Services \cup {Nil, "error", "query", "launch"}]
        BY <1>1, <1>2 DEF LaunchTypeOK
    <2>3. client' \in [Clients -> Services \cup Names \cup {"idle", "error"}]
        <3> SUFFICES ASSUME NEW c \in Clients
                     PROVE  client'[c] \in Services \cup Names \cup {"idle", "error"}
            BY <1>2
        <3>1. client[c] \in Services \cup Names \cup {"idle", "error"}
            BY <1>1 DEF LaunchTypeOK
        <3> QED BY <1>2, <3>1
    <2> QED BY <1>1, <1>2, <2>1, <2>2, <2>3 DEF LaunchTypeOK, Notes
<1>6. Starting'
    BY <1>1, <1>2, <1>3 DEF Starting
<1>7. Unborn'
    BY <1>1 DEF Unborn
<1>8. NamesSound'
    <2> SUFFICES ASSUME NEW n \in Names
                 PROVE  /\ \A s, t \in Running : owner[s] = n /\ owner[t] = n => s = t
                        /\ entry'[n] \in {Nil, "query"} => \A s \in Running : owner[s] # n
                        /\ entry'[n] \in Services => entry'[n] \in ready /\ owner[entry'[n]] = n
                        /\ entry'[n] = "launch" <=> n \in asking'
        BY <1>3 DEF NamesSound, IsFree
    <2>1. CASE n = a
        <3>1. entry'[n] = r /\ n \notin asking' /\ r \notin {"query", "launch"}
            BY <1>2, <2>1, Distinct
        <3> QED BY <1>1, <2>1, <3>1 DEF NamesSound
    <2>2. CASE n # a
        <3>1. entry'[n] = entry[n] /\ (n \in asking' <=> n \in asking)
            BY <1>2, <2>2
        <3> QED BY <1>1, <3>1 DEF NamesSound, IsFree
    <2> QED BY <2>1, <2>2
<1>9. ClientsSound'
    <2> SUFFICES ASSUME NEW c \in Clients
                 PROVE  /\ client'[c] \in Services => client'[c] \in ready /\ owner[client'[c]] \in Names
                        /\ client'[c] \in Names => entry'[client'[c]] \in {"query", "launch"}
        BY DEF ClientsSound
    <2>1. client[c] \in Services \cup Names \cup {"idle", "error"}
        BY <1>1 DEF LaunchTypeOK
    <2>2. CASE client[c] = a
        <3>1. a \in Names
            BY <1>4, <2>1, <2>2, Distinct
        <3>2. client'[c] = IF r = Nil THEN "error" ELSE r
            BY <1>2, <2>2
        <3>3. client'[c] \notin Names
            BY <3>2, Distinct
        <3>4. client'[c] \in Services => client'[c] = r
            BY <3>2, Distinct
        <3> QED BY <3>1, <3>3, <3>4
    <2>3. CASE client[c] # a
        <3>1. client'[c] = client[c]
            BY <1>2, <2>3
        <3>2. client[c] \in Names => entry'[client[c]] = entry[client[c]]
            BY <1>2, <2>3
        <3> QED BY <1>1, <3>1, <3>2 DEF ClientsSound
    <2> QED BY <2>2, <2>3
<1> QED BY <1>3, <1>5, <1>6, <1>7, <1>8, <1>9 DEF LaunchInv

\* A message about a service nobody waits for.
LEMMA IgnoreStep ==
    ASSUME LaunchInv, box # << >>, box' = Tail(box), UNCHANGED <<state, ready, retired, owner>>,
           UNCHANGED <<asking, entry, client>>,
           services' \subseteq Services, instance' = instance, quota' = quota
    PROVE  LaunchInv'
<1>1. LaunchTypeOK /\ Starting /\ Unborn /\ NamesSound /\ ClientsSound
    BY DEF LaunchInv
<1>2. Requests' /\ Reports' /\ Running' = Running
    BY Left
<1>3. box' \in Seq(Notes)
    BY <1>1, BoxTyped, Popped
<1>4. LaunchTypeOK'
    BY <1>1, <1>3 DEF LaunchTypeOK, Notes
<1>5. Starting' /\ Unborn'
    BY <1>1, <1>2 DEF Starting, Unborn
<1>6. NamesSound'
    BY <1>1, <1>2 DEF NamesSound, IsFree
<1>7. ClientsSound'
    BY <1>1 DEF ClientsSound
<1> QED BY <1>2, <1>4, <1>5, <1>6, <1>7 DEF LaunchInv

\* Respond(address, ...): LAUNCHOK, ERROR and REMOVE.
LEMMA RespondStep ==
    ASSUME LaunchInv, box # << >>, box' = Tail(box), Now.cmd # "LAUNCH",
           NEW r \in Services \cup {Nil, "error"}, Respond(Now.who, r),
           r \in Services => r = Now.who /\ r \in ready,
           r = Nil => state[Now.who] = "exit",
           services' \subseteq Services, UNCHANGED <<state, ready, retired, quota>>
    PROVE  LaunchInv'
<1>1. LaunchTypeOK /\ Requests /\ Starting
    BY DEF LaunchInv
<1> DEFINE s == Now.who
           a == owner[s]
<1>2. /\ instance' = instance \ {s} /\ owner' = owner
      /\ IF s \in instance THEN Answered(a, r) ELSE UNCHANGED <<asking, entry, client>>
    BY DEF Respond, mgr
<1>3. CASE s \notin instance
    <2>1. instance' = instance /\ UNCHANGED <<asking, entry, client>>
        BY <1>2, <1>3
    <2> QED BY <1>2, <2>1, IgnoreStep
<1>4. CASE s \in instance
    <2>1. /\ a \in asking /\ s \in Services
          /\ \A t \in instance : owner[t] = a => t = s
          /\ a \in Names => \A t \in Running : owner[t] = a => t = s
        BY <1>1, <1>4 DEF Starting, LaunchTypeOK
    <2>2. /\ \A j \in DOMAIN box' : j + 1 \in DOMAIN box /\ box'[j] = box[j + 1]
        BY <1>1, BoxTyped, Popped
    <2>3. ASSUME NEW j \in DOMAIN box', box'[j].cmd = "LAUNCH" PROVE box'[j].who # a
        <3>1. j + 1 \in DOMAIN box /\ box'[j] = box[j + 1]
            BY <2>2
        <3> QED BY <1>1, <1>4, <2>3, <3>1 DEF Requests
    <2>4. ASSUME r = Nil, a \in Names PROVE \A t \in Running : owner[t] # a
        <3>1. s \notin Running
            BY <2>4 DEF Running
        <3> QED BY <2>1, <2>4, <3>1
    <2>5. \A t \in instance' : owner[t] # a
        BY <1>2, <2>1
    <2>6. instance' \subseteq instance /\ Answered(a, r)
        BY <1>2, <1>4
    <2>7. r \in Services => r \in ready /\ owner[r] = a
        OBVIOUS
    <2>8. quota' \in [Askers \cup {"fault"} -> Nat]
        BY <1>1 DEF LaunchTypeOK
    <2> HIDE DEF a, s
    <2> QED BY <1>2, <2>1, <2>3, <2>4, <2>5, <2>6, <2>7, <2>8, AnswerStep
<1> QED BY <1>3, <1>4

\* command.LAUNCH: the request becomes a service that starts.
LEMMA LaunchStep ==
    ASSUME LaunchInv, NEW s \in Services, LAUNCH(s) PROVE LaunchInv'
<1>1. LaunchTypeOK /\ Requests /\ Reports /\ Starting /\ Unborn /\ NamesSound /\ ClientsSound
    BY DEF LaunchInv
<1> DEFINE a == Now.who
<1>2. /\ box # << >> /\ Now.cmd = "LAUNCH" /\ box' = Tail(box) /\ state[s] = "absent"
      /\ state' = [state EXCEPT ![s] = "boot"] /\ services' = services \cup {s}
      /\ instance' = instance \cup {s} /\ owner' = [owner EXCEPT ![s] = a]
      /\ UNCHANGED <<ready, retired, asking, entry, client, quota>>
    BY DEF LAUNCH, Takes, Absent, mgr
<1>3. /\ box' \in Seq(Notes) /\ 1 \in DOMAIN box /\ Now = box[1]
      /\ \A j \in DOMAIN box' : j \in Nat /\ j + 1 \in DOMAIN box
                                /\ box'[j] = box[j + 1] /\ j + 1 # 1
    BY <1>1, <1>2, BoxTyped, Popped
<1>4. /\ a \in asking
      /\ \A k \in DOMAIN box : box[k].cmd = "LAUNCH" /\ box[k].who = a => k = 1
      /\ \A t \in instance : owner[t] # a
      /\ a \in Names => \A t \in Running : owner[t] # a
    BY <1>1, <1>2, <1>3 DEF Requests
<1> HIDE DEF a
<1>5. /\ \A t \in Services : t # s => owner'[t] = owner[t] /\ state'[t] = state[t]
      /\ owner'[s] = a /\ state'[s] = "boot"
    BY <1>1, <1>2 DEF LaunchTypeOK
<1>6. s \notin ready /\ s \notin instance /\ instance \subseteq Services /\ a \in Askers
      /\ ready \subseteq Services
    BY <1>1, <1>2, <1>4 DEF Unborn, LaunchTypeOK
<1>7. ASSUME NEW t \in Running' PROVE t = s \/ (t \in Running /\ owner'[t] = owner[t])
    BY <1>2, <1>5, <1>7 DEF Running, Alive, Absent
<1>8. LaunchTypeOK'
    BY <1>1, <1>2, <1>3, <1>6 DEF LaunchTypeOK, Notes
<1>9. Requests'
    <2> SUFFICES ASSUME NEW j \in DOMAIN box', box'[j].cmd = "LAUNCH"
                 PROVE  /\ box'[j].who \in asking
                        /\ \A k \in DOMAIN box' : box'[k].cmd = "LAUNCH" /\ box'[k].who = box'[j].who => k = j
                        /\ \A t \in instance' : owner'[t] # box'[j].who
                        /\ box'[j].who \in Names => \A t \in Running' : owner'[t] # box'[j].who
        BY <1>2 DEF Requests
    <2>1. j + 1 \in DOMAIN box /\ box'[j] = box[j + 1] /\ j + 1 # 1
        BY <1>3
    <2>2. /\ box[j + 1].who \in asking
          /\ \A k \in DOMAIN box : box[k].cmd = "LAUNCH" /\ box[k].who = box[j + 1].who => k = j + 1
          /\ \A t \in instance : owner[t] # box[j + 1].who
          /\ box[j + 1].who \in Names => \A t \in Running : owner[t] # box[j + 1].who
        BY <1>1, <2>1 DEF Requests
    <2>3. ASSUME NEW k \in DOMAIN box', box'[k].cmd = "LAUNCH", box'[k].who = box'[j].who PROVE k = j
        <3>1. k + 1 \in DOMAIN box /\ box'[k] = box[k + 1] /\ k \in Nat /\ j \in Nat
            BY <1>3
        <3>2. k + 1 = j + 1
            BY <2>1, <2>2, <2>3, <3>1
        <3> QED BY <3>1, <3>2
    <2>4. box'[j].who # a
        BY <1>4, <2>1
    <2>5. \A t \in instance' : owner'[t] # box'[j].who
        <3> SUFFICES ASSUME NEW t \in instance' PROVE owner'[t] # box'[j].who
            OBVIOUS
        <3> QED BY <1>2, <1>5, <1>6, <2>1, <2>2, <2>4
    <2>6. box'[j].who \in Names => \A t \in Running' : owner'[t] # box'[j].who
        <3> SUFFICES ASSUME box'[j].who \in Names, NEW t \in Running' PROVE owner'[t] # box'[j].who
            OBVIOUS
        <3> QED BY <1>5, <1>7, <2>1, <2>2, <2>4
    <2> QED BY <2>1, <2>2, <2>3, <2>5, <2>6
<1>10. Reports'
    <2> SUFFICES ASSUME NEW j \in DOMAIN box', box'[j].cmd # "LAUNCH"
                 PROVE  /\ box'[j].who \in Services
                        /\ box'[j].cmd = "LAUNCHOK" => box'[j].who \in ready
                        /\ box'[j].cmd = "REMOVE" => state'[box'[j].who] = "exit"
        BY <1>2 DEF Reports
    <2>1. j + 1 \in DOMAIN box /\ box'[j] = box[j + 1]
        BY <1>3
    <2>2. /\ box'[j].who \in Services
          /\ box'[j].cmd = "LAUNCHOK" => box'[j].who \in ready
          /\ box'[j].cmd = "REMOVE" => state[box'[j].who] = "exit"
        BY <1>1, <2>1 DEF Reports
    <2>3. box'[j].cmd = "REMOVE" => box'[j].who # s
        BY <1>2, <2>2
    <2> QED BY <1>5, <2>2, <2>3
<1>11. Starting'
    <2> SUFFICES ASSUME NEW t \in instance'
                 PROVE  /\ owner'[t] \in asking
                        /\ \A u \in instance' : owner'[u] = owner'[t] => u = t
                        /\ owner'[t] \in Names => \A u \in Running' : owner'[u] = owner'[t] => u = t
        BY <1>2 DEF Starting
    <2>1. CASE t = s
        <3>1. \A u \in instance : u # s /\ owner'[u] = owner[u] /\ owner[u] # a
            BY <1>4, <1>5, <1>6
        <3>2. a \in Names => \A u \in Running' : owner'[u] = a => u = s
            BY <1>4, <1>7
        <3> QED BY <1>2, <1>4, <1>5, <2>1, <3>1, <3>2
    <2>2. CASE t # s
        <3>1. t \in instance /\ owner'[t] = owner[t] /\ owner[t] # a
            BY <1>2, <1>4, <1>5, <1>6, <2>2
        <3>2. /\ owner[t] \in asking
              /\ \A u \in instance : owner[u] = owner[t] => u = t
              /\ owner[t] \in Names => \A u \in Running : owner[u] = owner[t] => u = t
            BY <1>1, <3>1 DEF Starting
        <3>3. \A u \in instance' : owner'[u] = owner[t] => u = t
            BY <1>2, <1>5, <1>6, <3>1, <3>2
        <3>4. owner[t] \in Names => \A u \in Running' : owner'[u] = owner[t] => u = t
            BY <1>5, <1>7, <3>1, <3>2
        <3> QED BY <3>1, <3>2, <3>3, <3>4
    <2> QED BY <2>1, <2>2
<1>12. Unborn'
    <2> SUFFICES ASSUME NEW t \in Services, state'[t] = "absent" PROVE t \notin ready \cup instance'
        BY <1>2 DEF Unborn
    <2>1. t # s /\ state[t] = "absent"
        BY <1>5
    <2> QED BY <1>1, <1>2, <2>1 DEF Unborn
<1>13. NamesSound'
    <2> SUFFICES ASSUME NEW n \in Names
                 PROVE  /\ \A t, u \in Running' : owner'[t] = n /\ owner'[u] = n => t = u
                        /\ entry[n] \in {Nil, "query"} => \A t \in Running' : owner'[t] # n
                        /\ entry[n] \in Services => entry[n] \in ready /\ owner'[entry[n]] = n
                        /\ entry[n] = "launch" <=> n \in asking
        BY <1>2 DEF NamesSound, IsFree
    <2>1. /\ \A t, u \in Running : owner[t] = n /\ owner[u] = n => t = u
          /\ entry[n] \in {Nil, "query"} => \A t \in Running : owner[t] # n
          /\ entry[n] \in Services => entry[n] \in ready /\ owner[entry[n]] = n
          /\ entry[n] = "launch" <=> n \in asking
        BY <1>1 DEF NamesSound, IsFree
    <2>2. \A t, u \in Running' : owner'[t] = n /\ owner'[u] = n => t = u
        <3>1. CASE n = a
            <4>1. \A t \in Running' : owner'[t] = n => t = s
                BY <1>4, <1>7, <3>1
            <4> QED BY <4>1
        <3>2. CASE n # a
            <4>1. \A t \in Running' : owner'[t] = n => t \in Running /\ owner[t] = n
                BY <1>5, <1>7, <3>2
            <4> QED BY <2>1, <4>1
        <3> QED BY <3>1, <3>2
    <2>3. entry[n] \in {Nil, "query"} => n # a
        BY <1>4, <2>1, Distinct
    <2>4. entry[n] \in {Nil, "query"} => \A t \in Running' : owner'[t] # n
        BY <1>5, <1>7, <2>1, <2>3
    <2>5. entry[n] \in Services => owner'[entry[n]] = owner[entry[n]]
        BY <1>5, <1>6, <2>1
    <2> QED BY <2>1, <2>2, <2>4, <2>5
<1>14. ClientsSound'
    <2> SUFFICES ASSUME NEW c \in Clients
                 PROVE  /\ client[c] \in Services => client[c] \in ready /\ owner'[client[c]] \in Names
                        /\ client[c] \in Names => entry[client[c]] \in {"query", "launch"}
        BY <1>2 DEF ClientsSound
    <2>1. /\ client[c] \in Services => client[c] \in ready /\ owner[client[c]] \in Names
          /\ client[c] \in Names => entry[client[c]] \in {"query", "launch"}
        BY <1>1 DEF ClientsSound
    <2>2. client[c] \in Services => owner'[client[c]] = owner[client[c]]
        BY <1>5, <1>6, <2>1
    <2> QED BY <2>1, <2>2
<1> QED BY <1>8, <1>9, <1>10, <1>11, <1>12, <1>13, <1>14 DEF LaunchInv

\* skynet.launch gives no handle.
LEMMA LaunchFailsStep ==
    ASSUME LaunchInv, LaunchFails PROVE LaunchInv'
<1>1. LaunchTypeOK /\ Requests
    BY DEF LaunchInv
<1> DEFINE a == Now.who
<1>2. /\ box # << >> /\ Now.cmd = "LAUNCH" /\ box' = Tail(box) /\ Answered(a, "error")
      /\ UNCHANGED <<services, instance, owner, state, ready, retired>> /\ Uses("fault")
    BY DEF LaunchFails, Takes, Fault, table, life
<1>3. /\ 1 \in DOMAIN box /\ Now = box[1]
      /\ \A j \in DOMAIN box' : j + 1 \in DOMAIN box /\ box'[j] = box[j + 1] /\ j + 1 # 1
    BY <1>1, <1>2, BoxTyped, Popped
<1>4. /\ a \in asking
      /\ \A k \in DOMAIN box : box[k].cmd = "LAUNCH" /\ box[k].who = a => k = 1
      /\ \A t \in instance : owner[t] # a
    BY <1>1, <1>2, <1>3 DEF Requests
<1>5. \A j \in DOMAIN box' : box'[j].cmd = "LAUNCH" => box'[j].who # a
    BY <1>3, <1>4
<1>6. quota' \in [Askers \cup {"fault"} -> Nat] /\ services' \subseteq Services
    BY <1>1, <1>2, Spent DEF LaunchTypeOK
<1>7. "error" \notin Services /\ "error" # Nil
    BY Distinct
<1> DEFINE r == "error"
<1>8. r \in Services \cup {Nil, "error"} /\ Answered(a, r) /\ r \notin Services /\ r # Nil
    BY <1>2, <1>7
<1> HIDE DEF a, r
<1> QED BY <1>2, <1>4, <1>5, <1>6, <1>8, AnswerStep

-----------------------------------------------------------------------------
(* The askers and the clients *)

\* An asker that does not wait sends LAUNCH.
LEMMA AskStep ==
    ASSUME LaunchInv, NEW a \in Askers, a \notin asking, Ask(a),
           UNCHANGED <<services, instance, owner, state, ready, retired>>,
           entry' \in [Names -> Services \cup {Nil, "error", "query", "launch"}],
           \A n \in Names : n # a => entry'[n] = entry[n],
           a \in Names => IsFree(a) /\ entry'[a] = "launch",
           client' \in [Clients -> Services \cup Names \cup {"idle", "error"}],
           \A c \in Clients : client'[c] = client[c] \/ (a \in Names /\ client'[c] = a)
    PROVE  LaunchInv'
<1>1. LaunchTypeOK /\ Requests /\ Reports /\ Starting /\ Unborn /\ NamesSound /\ ClientsSound
    BY DEF LaunchInv
<1> DEFINE m == Note("LAUNCH", a)
           more == <<m>>
<1>2. Uses(a) /\ asking' = asking \cup {a} /\ box' = Append(box, m)
    BY DEF Ask
<1>3. m \in Notes /\ m.cmd = "LAUNCH" /\ m.who = a
    BY DEF Note, Notes
<1> HIDE DEF m
<1>4. box \in Seq(Notes) /\ more \in Seq(Notes) /\ box' = box \o more
    BY <1>1, <1>2, <1>3, BoxTyped
<1>5. /\ box' \in Seq(Notes)
      /\ \A j \in DOMAIN box' :
             \/ j \in DOMAIN box /\ box'[j] = box[j]
             \/ box'[j] = m /\ j = Len(box) + 1
    <2> DEFINE q == more
    <2>1. \A k \in DOMAIN q : k = 1 /\ q[k] = m
        OBVIOUS
    <2>2. q \in Seq(Notes) /\ box' = box \o q
        BY <1>4
    <2> HIDE DEF q
    <2>3. /\ box' \in Seq(Notes)
          /\ \A j \in DOMAIN box' :
                \/ j \in DOMAIN box /\ box'[j] = box[j]
                \/ \E k \in DOMAIN q : box'[j] = q[k] /\ j = Len(box) + k
        BY <1>4, <2>2, Added
    <2> QED BY <2>1, <2>3
<1>6. Running' = Running
    BY DEF Running, Alive, Absent
<1>7. a \in Names => \A s \in Running : owner[s] # a
    BY <1>1 DEF NamesSound
<1>8. LaunchTypeOK'
    <2>1. quota' \in [Askers \cup {"fault"} -> Nat]
        BY <1>1, <1>2, Spent
    <2> QED BY <1>1, <1>2, <1>5, <2>1 DEF LaunchTypeOK, Notes
<1>9. Requests'
    <2> SUFFICES ASSUME NEW j \in DOMAIN box', box'[j].cmd = "LAUNCH"
                 PROVE  /\ box'[j].who \in asking'
                        /\ \A k \in DOMAIN box' : box'[k].cmd = "LAUNCH" /\ box'[k].who = box'[j].who => k = j
                        /\ \A s \in instance : owner[s] # box'[j].who
                        /\ box'[j].who \in Names => \A s \in Running : owner[s] # box'[j].who
        BY <1>6 DEF Requests
    <2>1. \A k \in DOMAIN box : box[k].cmd = "LAUNCH" => box[k].who # a
        BY <1>1 DEF Requests
    <2>2. CASE j \in DOMAIN box /\ box'[j] = box[j]
        <3>1. /\ box[j].who \in asking
              /\ \A k \in DOMAIN box : box[k].cmd = "LAUNCH" /\ box[k].who = box[j].who => k = j
              /\ \A s \in instance : owner[s] # box[j].who
              /\ box[j].who \in Names => \A s \in Running : owner[s] # box[j].who
            BY <1>1, <2>2 DEF Requests
        <3>2. box'[j].who # a
            BY <2>1, <2>2
        <3>3. \A k \in DOMAIN box' : box'[k].cmd = "LAUNCH" /\ box'[k].who = box'[j].who => k = j
            BY <1>3, <1>5, <2>2, <3>1, <3>2
        <3> QED BY <1>2, <2>2, <3>1, <3>3
    <2>3. CASE box'[j] = m /\ j = Len(box) + 1
        <3>1. \A s \in instance : owner[s] # a
            BY <1>1 DEF Starting
        <3>2. \A k \in DOMAIN box' : box'[k].cmd = "LAUNCH" /\ box'[k].who = a => k = j
            BY <1>5, <2>1, <2>3
        <3> QED BY <1>2, <1>3, <1>7, <2>3, <3>1, <3>2
    <2> QED BY <1>5, <2>2, <2>3
<1>10. Reports'
    <2> SUFFICES ASSUME NEW j \in DOMAIN box', box'[j].cmd # "LAUNCH"
                 PROVE  /\ box'[j].who \in Services
                        /\ box'[j].cmd = "LAUNCHOK" => box'[j].who \in ready
                        /\ box'[j].cmd = "REMOVE" => state[box'[j].who] = "exit"
        BY DEF Reports
    <2>1. j \in DOMAIN box /\ box'[j] = box[j]
        BY <1>3, <1>5
    <2> QED BY <1>1, <2>1 DEF Reports
<1>11. Starting' /\ Unborn'
    BY <1>1, <1>2, <1>6 DEF Starting, Unborn
<1>12. NamesSound'
    <2> SUFFICES ASSUME NEW n \in Names
                 PROVE  /\ \A s, t \in Running : owner[s] = n /\ owner[t] = n => s = t
                        /\ entry'[n] \in {Nil, "query"} => \A s \in Running : owner[s] # n
                        /\ entry'[n] \in Services => entry'[n] \in ready /\ owner[entry'[n]] = n
                        /\ entry'[n] = "launch" <=> n \in asking'
        BY <1>6 DEF NamesSound, IsFree
    <2>1. CASE n = a
        <3>1. entry'[n] = "launch" /\ n \in asking'
            BY <1>2, <2>1
        <3>2. "launch" \notin Services /\ "launch" # Nil
            BY Distinct
        <3> QED BY <1>1, <3>1, <3>2 DEF NamesSound
    <2>2. CASE n # a
        <3>1. entry'[n] = entry[n] /\ (n \in asking' <=> n \in asking)
            BY <1>2, <2>2
        <3> QED BY <1>1, <3>1 DEF NamesSound, IsFree
    <2> QED BY <2>1, <2>2
<1>13. ClientsSound'
    <2> SUFFICES ASSUME NEW c \in Clients
                 PROVE  /\ client'[c] \in Services => client'[c] \in ready /\ owner[client'[c]] \in Names
                        /\ client'[c] \in Names => entry'[client'[c]] \in {"query", "launch"}
        BY DEF ClientsSound
    <2>1. CASE a \in Names /\ client'[c] = a
        BY <2>1, Distinct
    <2>2. CASE client'[c] = client[c] /\ client[c] # a
        <3>1. client[c] \in Names => entry'[client[c]] = entry[client[c]]
            BY <2>2
        <3> QED BY <1>1, <2>2, <3>1 DEF ClientsSound
    <2>3. CASE client'[c] = client[c] /\ client[c] = a /\ a \notin Names
        BY <2>3, Distinct
    <2> QED BY <2>1, <2>2, <2>3
<1> QED BY <1>8, <1>9, <1>10, <1>11, <1>12, <1>13 DEF LaunchInv

\* A client hears what is known of a name, or waits.
LEMMA HearStep ==
    ASSUME LaunchInv, UNCHANGED <<box, services, instance, owner, state, ready, retired, asking, quota>>,
           NEW c \in Clients, NEW n \in Names, NEW e, NEW x,
           entry' = [entry EXCEPT ![n] = e], client' = [client EXCEPT ![c] = x],
           e = entry[n] \/ (entry[n] = Nil /\ e = "query"),
           \/ x = n /\ e \in {"query", "launch"}
           \/ x = e /\ e \in Services \cup {"error"}
    PROVE  LaunchInv'
<1>1. LaunchTypeOK /\ Requests /\ Reports /\ Starting /\ Unborn /\ NamesSound /\ ClientsSound
    BY DEF LaunchInv
<1>2. Running' = Running
    BY DEF Running, Alive, Absent
<1>3. /\ entry'[n] = e /\ \A k \in Names : k # n => entry'[k] = entry[k]
      /\ client'[c] = x /\ \A d \in Clients : d # c => client'[d] = client[d]
    BY <1>1 DEF LaunchTypeOK
<1>4. e \in Services \cup {Nil, "error", "query", "launch"}
    BY <1>1 DEF LaunchTypeOK
<1>5. LaunchTypeOK'
    BY <1>1, <1>4 DEF LaunchTypeOK
<1>6. Requests' /\ Reports' /\ Starting' /\ Unborn'
    BY <1>1, <1>2 DEF Requests, Reports, Starting, Unborn
<1>7. e = entry[n] \/ (e \notin Services /\ e # "launch" /\ entry[n] # "launch" /\ entry[n] = Nil)
    BY Distinct
<1>8. NamesSound'
    <2> SUFFICES ASSUME NEW k \in Names
                 PROVE  /\ \A s, t \in Running : owner[s] = k /\ owner[t] = k => s = t
                        /\ entry'[k] \in {Nil, "query"} => \A s \in Running : owner[s] # k
                        /\ entry'[k] \in Services => entry'[k] \in ready /\ owner[entry'[k]] = k
                        /\ entry'[k] = "launch" <=> k \in asking
        BY <1>2 DEF NamesSound, IsFree
    <2>1. /\ \A s, t \in Running : owner[s] = k /\ owner[t] = k => s = t
          /\ entry[k] \in {Nil, "query"} => \A s \in Running : owner[s] # k
          /\ entry[k] \in Services => entry[k] \in ready /\ owner[entry[k]] = k
          /\ entry[k] = "launch" <=> k \in asking
        BY <1>1 DEF NamesSound, IsFree
    <2>2. \/ entry'[k] = entry[k]
          \/ /\ entry'[k] \notin Services /\ entry'[k] # "launch"
             /\ entry[k] # "launch" /\ entry[k] = Nil
        BY <1>3, <1>7
    <2> QED BY <2>1, <2>2
<1>9. ClientsSound'
    <2> SUFFICES ASSUME NEW d \in Clients
                 PROVE  /\ client'[d] \in Services => client'[d] \in ready /\ owner[client'[d]] \in Names
                        /\ client'[d] \in Names => entry'[client'[d]] \in {"query", "launch"}
        BY DEF ClientsSound
    <2>1. CASE d = c /\ x = n /\ e \in {"query", "launch"}
        BY <1>3, <2>1, Distinct
    <2>2. CASE d = c /\ x = e /\ e \in Services \cup {"error"}
        <3>1. e \notin Names /\ (e \in Services => e = entry[n])
            BY <1>7, <2>2, Distinct
        <3>2. entry[n] \in Services => entry[n] \in ready /\ owner[entry[n]] = n
            BY <1>1 DEF NamesSound
        <3> QED BY <1>3, <2>2, <3>1, <3>2
    <2>3. CASE d # c
        <3>1. client'[d] = client[d]
            BY <1>3, <2>3
        <3>2. /\ client[d] \in Services => client[d] \in ready /\ owner[client[d]] \in Names
              /\ client[d] \in Names => entry[client[d]] \in {"query", "launch"}
            BY <1>1 DEF ClientsSound
        <3>3. client[d] \in Names => entry'[client[d]] \in {"query", "launch"}
            BY <1>3, <1>7, <3>2, Distinct
        <3> QED BY <3>1, <3>2, <3>3
    <2> QED BY <2>1, <2>2, <2>3
<1> QED BY <1>5, <1>6, <1>8, <1>9 DEF LaunchInv

-----------------------------------------------------------------------------
(* The steps of the node *)

\* The loop of main.lua, and the two requests of a client.
LEMMA AskersStep ==
    ASSUME LaunchInv,
           NewService \/ \E c \in Clients, n \in Names : Unique(c, n) \/ Query(c, n)
    PROVE  LaunchInv'
<1>1. LaunchTypeOK /\ NamesSound
    BY DEF LaunchInv
<1>2. CASE NewService
    <2>1. /\ Main \notin asking /\ Ask(Main) /\ UNCHANGED <<entry, client>>
          /\ UNCHANGED <<services, instance, owner, state, ready, retired>>
        BY <1>2 DEF NewService, table, life
    <2>2. /\ entry' \in [Names -> Services \cup {Nil, "error", "query", "launch"}]
          /\ client' \in [Clients -> Services \cup Names \cup {"idle", "error"}]
        BY <1>1, <2>1 DEF LaunchTypeOK
    <2>3. Main \in Askers /\ Main \notin Names
        BY Distinct
    <2> QED BY <2>1, <2>2, <2>3, AskStep
<1>3. ASSUME NEW c \in Clients, NEW n \in Names, Unique(c, n) PROVE LaunchInv'
    <2>1. UNCHANGED <<services, instance, owner, state, ready, retired>>
        BY <1>3 DEF Unique, table, life
    <2>2. CASE /\ IsFree(n) /\ Ask(n) /\ entry' = [entry EXCEPT ![n] = "launch"]
               /\ client' = [client EXCEPT ![c] = n]
        <3>1. /\ entry' \in [Names -> Services \cup {Nil, "error", "query", "launch"}]
              /\ client' \in [Clients -> Services \cup Names \cup {"idle", "error"}]
              /\ \A k \in Names : k # n => entry'[k] = entry[k]
              /\ entry'[n] = "launch"
              /\ \A d \in Clients : client'[d] = client[d] \/ client'[d] = n
            BY <1>1, <2>2 DEF LaunchTypeOK
        <3>2. n \in Askers
            BY Distinct
        <3>3. n \notin asking
            BY <1>1, <2>2, Distinct DEF NamesSound, IsFree
        <3> QED BY <2>1, <2>2, <3>1, <3>2, <3>3, AskStep
    <2>3. CASE /\ ~IsFree(n) /\ UNCHANGED <<box, asking, entry, quota>>
               /\ client' = [client EXCEPT ![c] = IF entry[n] = "launch" THEN n ELSE entry[n]]
        <3> DEFINE e == entry[n]
                   x == IF entry[n] = "launch" THEN n ELSE entry[n]
        <3>1. e \in Services \cup {"error", "launch"}
            BY <1>1, <2>3 DEF LaunchTypeOK, IsFree
        <3>2. (x = n /\ e \in {"query", "launch"}) \/ (x = e /\ e \in Services \cup {"error"})
            BY <3>1
        <3>3. entry' = [entry EXCEPT ![n] = e] /\ client' = [client EXCEPT ![c] = x]
            BY <1>1, <2>3 DEF LaunchTypeOK
        <3>4. /\ e = entry[n] \/ (entry[n] = Nil /\ e = "query")
              /\ UNCHANGED <<box, services, instance, owner, state, ready, retired, asking, quota>>
            BY <2>1, <2>3
        <3> HIDE DEF e, x
        <3> QED BY <3>2, <3>3, <3>4, HearStep
    <2> QED BY <1>3, <2>2, <2>3 DEF Unique
<1>4. ASSUME NEW c \in Clients, NEW n \in Names, Query(c, n) PROVE LaunchInv'
    <2> DEFINE e == IF entry[n] = Nil THEN "query" ELSE entry[n]
               x == IF e \in {"query", "launch"} THEN n ELSE entry[n]
    <2>1. /\ UNCHANGED <<box, services, instance, owner, state, ready, retired, asking, quota>>
          /\ entry' = [entry EXCEPT ![n] = e]
        BY <1>4 DEF Query, table, life
    <2>2. entry'[n] = e
        BY <1>1, <2>1 DEF LaunchTypeOK
    <2>3. client' = [client EXCEPT ![c] = x]
        BY <1>4, <2>2 DEF Query
    <2>4. e \in Services \cup {"error", "query", "launch"}
        BY <1>1 DEF LaunchTypeOK
    <2>5. e = entry[n] \/ (entry[n] = Nil /\ e = "query")
        OBVIOUS
    <2>6. (x = n /\ e \in {"query", "launch"}) \/ (x = e /\ e \in Services \cup {"error"})
        BY <2>4, <2>5
    <2> HIDE DEF e, x
    <2> QED BY <2>1, <2>3, <2>5, <2>6, HearStep
<1> QED BY <1>2, <1>3, <1>4

\* The launcher takes a message.
LEMMA ServeStep ==
    ASSUME LaunchInv, Serve PROVE LaunchInv'
<1>1. LaunchTypeOK /\ Reports
    BY DEF LaunchInv
<1>2. CASE \E s \in Services : LAUNCH(s)
    BY <1>2, LaunchStep
<1>3. CASE LaunchFails
    BY <1>3, LaunchFailsStep
<1>4. ASSUME box # << >>, box' = Tail(box), Now.cmd # "LAUNCH"
      PROVE  /\ Now.who \in Services
             /\ Now.cmd = "LAUNCHOK" => Now.who \in ready
             /\ Now.cmd = "REMOVE" => state[Now.who] = "exit"
    BY <1>1, <1>4, BoxTyped, Popped DEF Reports
<1>5. "error" \notin Services /\ "error" # Nil /\ Nil \notin Services
    BY Distinct
<1>6. CASE LAUNCHOK
    <2>1. /\ box # << >> /\ Now.cmd = "LAUNCHOK" /\ box' = Tail(box) /\ Respond(Now.who, Now.who)
          /\ UNCHANGED <<services, state, ready, retired, quota>>
        BY <1>6 DEF LAUNCHOK, Takes, life
    <2>2. Now.who \in Services /\ Now.who \in ready /\ services' \subseteq Services
        BY <1>1, <1>4, <2>1 DEF LaunchTypeOK
    <2> DEFINE r == Now.who
    <2>3. r = Now.who /\ r \in ready /\ r \in Services \cup {Nil, "error"} /\ r # Nil
          /\ Respond(Now.who, r)
        BY <1>5, <2>1, <2>2
    <2> HIDE DEF r
    <2> QED BY <2>1, <2>2, <2>3, RespondStep
<1>7. ASSUME box # << >>, box' = Tail(box), Now.cmd # "LAUNCH", services' = Gone(Now.who),
             NEW r \in {Nil, "error"}, Respond(Now.who, r), r = Nil => Now.cmd = "REMOVE",
             UNCHANGED <<life, quota>>
      PROVE  LaunchInv'
    <2>1. services' \subseteq Services /\ UNCHANGED <<state, ready, retired, quota>>
        BY <1>1, <1>7 DEF LaunchTypeOK, Gone, life
    <2>2. r \in Services \cup {Nil, "error"} /\ r \notin Services
          /\ (r = Nil => state[Now.who] = "exit")
        BY <1>4, <1>5, <1>7
    <2> QED BY <1>7, <2>1, <2>2, RespondStep
<1>8. CASE ERROR
    <2>1. "error" \in {Nil, "error"} /\ "error" # Nil
        BY <1>5
    <2> QED BY <1>7, <1>8, <2>1 DEF ERROR, Takes
<1>9. CASE REMOVE
    <2> DEFINE r == IF Now.cmd = "KILLED" THEN "error" ELSE Nil
    <2>1. /\ box # << >> /\ Now.cmd \in {"REMOVE", "KILLED"} /\ box' = Tail(box)
          /\ services' = Gone(Now.who) /\ Respond(Now.who, r) /\ UNCHANGED <<life, quota>>
        BY <1>9 DEF REMOVE
    <2>2. r \in {Nil, "error"} /\ (r = Nil => Now.cmd = "REMOVE") /\ Now.cmd # "LAUNCH"
        BY <1>5, <2>1
    <2> HIDE DEF r
    <2> QED BY <1>7, <2>1, <2>2
<1> QED BY <1>2, <1>3, <1>6, <1>8, <1>9 DEF Serve

\* A service acts, or is killed.
LEMMA ServicesStep ==
    ASSUME LaunchInv, NEW s \in Services,
           KILL(s) \/ InitOk(s) \/ InitFails(s) \/ Exit(s) \/ Retire(s)
    PROVE  LaunchInv'
<1>1. LaunchTypeOK /\ Unborn
    BY DEF LaunchInv
<1>2. /\ services \subseteq Services /\ state \in [Services -> {"absent", "boot", "up", "exit"}]
      /\ ready \subseteq Services /\ retired \subseteq Services /\ box \in Seq(Notes)
      /\ quota \in [Askers \cup {"fault"} -> Nat]
    BY <1>1, BoxTyped
<1>3. Fault => quota' \in [Askers \cup {"fault"} -> Nat]
    BY <1>1, Spent DEF Fault
<1>4. \A t \in ready : t \in Services /\ state[t] # "absent"
    BY <1>1, <1>2 DEF Unborn
<1>5. \A c \in {"LAUNCHOK", "ERROR", "REMOVE", "KILLED"} :
         Note(c, s) \in Notes /\ Note(c, s).cmd = c /\ Note(c, s).who = s
    BY DEF Note, Notes
\* One message, or none, and the service's state.
<1>6. ASSUME NEW x \in {"boot", "up", "exit"}, NEW more \in Seq(Notes), box' = box \o more,
             state[s] # "absent", state[s] = "exit" => x = "exit", state' = [state EXCEPT ![s] = x],
             \A j \in DOMAIN more : /\ more[j].cmd \in {"LAUNCHOK", "ERROR", "REMOVE"}
                                    /\ more[j].who = s
                                    /\ more[j].cmd = "LAUNCHOK" => s \in ready'
                                    /\ more[j].cmd = "REMOVE" => x = "exit",
             UNCHANGED <<services, instance, owner, asking, entry, client, retired>>,
             ready' = ready \/ ready' = ready \cup {s},
             quota' \in [Askers \cup {"fault"} -> Nat]
      PROVE  LaunchInv'
    <2>1. state'[s] = x /\ \A t \in Services : t # s => state'[t] = state[t]
        BY <1>2, <1>6
    <2>2. \A t \in Services : /\ state'[t] = "absent" <=> state[t] = "absent"
                              /\ state[t] = "exit" => state'[t] = "exit"
        BY <1>6, <2>1
    <2>3. \A j \in DOMAIN more : /\ more[j].cmd # "LAUNCH" /\ more[j].who \in Services
                                 /\ more[j].cmd = "LAUNCHOK" => more[j].who \in ready'
                                 /\ more[j].cmd = "REMOVE" => state'[more[j].who] = "exit"
        BY <1>6, <2>1
    <2>4. ready \subseteq ready' /\ \A t \in ready' : t \in Services /\ state'[t] # "absent"
        BY <1>4, <1>6, <2>1
    <2>5. /\ state' \in [Services -> {"absent", "boot", "up", "exit"}]
          /\ services' \subseteq Services /\ retired \subseteq retired' /\ retired' \subseteq Services
        BY <1>2, <1>6
    <2> QED BY <1>6, <2>2, <2>3, <2>4, <2>5, ServiceStep
<1>7. ASSUME NEW m \in Notes, box' = Append(box, m)
      PROVE  /\ box' = box \o <<m>> /\ <<m>> \in Seq(Notes)
             /\ \A j \in DOMAIN <<m>> : <<m>>[j] = m
    BY <1>2, <1>7
<1>8. CASE InitOk(s)
    <2> DEFINE m == Note("LAUNCHOK", s)
               more == <<m>>
    <2>1. /\ state[s] = "boot" /\ state' = [state EXCEPT ![s] = "up"] /\ ready' = ready \cup {s}
          /\ box' = Append(box, m)
          /\ UNCHANGED <<services, instance, owner, asking, entry, client, retired, quota>>
        BY <1>8 DEF InitOk, table, mgr
    <2>2. m \in Notes /\ m.cmd = "LAUNCHOK" /\ m.who = s
        BY <1>5
    <2> HIDE DEF m
    <2>3. more \in Seq(Notes) /\ box' = box \o more /\ \A j \in DOMAIN more : more[j] = m
        BY <1>7, <2>1, <2>2
    <2> HIDE DEF more
    <2>4. \A j \in DOMAIN more : /\ more[j].cmd \in {"LAUNCHOK", "ERROR", "REMOVE"}
                                 /\ more[j].who = s /\ s \in ready' /\ more[j].cmd # "REMOVE"
        BY <2>1, <2>2, <2>3
    <2>5. quota' \in [Askers \cup {"fault"} -> Nat]
        BY <1>2, <2>1
    <2> QED BY <1>6, <2>1, <2>3, <2>4, <2>5
<1>9. CASE InitFails(s)
    <2>1. PICK r \in {<< >>, <<Note("REMOVE", s)>>} : box' = box \o <<Note("ERROR", s)>> \o r
        BY <1>9 DEF InitFails
    <2> DEFINE m == Note("ERROR", s)
               p == Note("REMOVE", s)
               more == IF r = << >> THEN <<m>> ELSE <<m, p>>
    <2>2. m \in Notes /\ m.cmd = "ERROR" /\ m.who = s /\ p \in Notes /\ p.cmd = "REMOVE" /\ p.who = s
        BY <1>5
    <2>3. r \in {<< >>, <<p>>} /\ box' = box \o <<m>> \o r
        BY <2>1
    <2> HIDE DEF m, p
    <2>4. more \in Seq(Notes) /\ \A j \in DOMAIN more : more[j] \in {m, p}
        BY <2>2
    <2>5. box' = box \o more
        <3>1. CASE r = << >>
            BY <1>2, <2>2, <2>3, <3>1
        <3>2. CASE r = <<p>>
            <4>1. more = <<m, p>> /\ box' = (box \o <<m>>) \o <<p>>
                BY <2>3, <3>2
            <4>2. (box \o <<m>>) \o <<p>> = box \o <<m, p>>
                <5> DEFINE l == (box \o <<m>>) \o <<p>>
                           q == box \o <<m, p>>
                <5>1. Len(box) \in Nat /\ box \in Seq(Notes) /\ box \o <<m>> \in Seq(Notes)
                      /\ Len(box \o <<m>>) = Len(box) + 1
                    BY <1>2, <2>2
                <5>2. l \in Seq(Notes) /\ q \in Seq(Notes)
                      /\ Len(l) = Len(box) + 2 /\ Len(q) = Len(box) + 2
                    BY <2>2, <5>1
                <5>3. \A j \in 1..(Len(box) + 2) : l[j] = q[j]
                    BY <2>2, <5>1
                <5> HIDE DEF l, q
                <5>4. l = q
                    BY <5>1, <5>2, <5>3
                <5> QED BY <5>4 DEF l, q
            <4> QED BY <4>1, <4>2
        <3> QED BY <2>3, <3>1, <3>2
    <2> HIDE DEF more
    <2>6. \A j \in DOMAIN more : /\ more[j].cmd \in {"LAUNCHOK", "ERROR", "REMOVE"}
                                 /\ more[j].who = s /\ more[j].cmd # "LAUNCHOK"
        BY <2>2, <2>4
    <2>7. /\ state[s] = "boot" /\ state' = [state EXCEPT ![s] = "exit"]
          /\ UNCHANGED <<services, instance, owner, asking, entry, client, retired, ready>>
          /\ quota' \in [Askers \cup {"fault"} -> Nat]
        BY <1>3, <1>9 DEF InitFails, table, mgr
    <2> QED BY <1>6, <2>4, <2>5, <2>6, <2>7
<1>10. CASE Exit(s)
    <2> DEFINE m == Note("REMOVE", s)
               more == <<m>>
    <2>1. /\ state[s] \in {"boot", "up"} /\ state' = [state EXCEPT ![s] = "exit"]
          /\ box' = Append(box, m) /\ quota' \in [Askers \cup {"fault"} -> Nat]
          /\ UNCHANGED <<services, instance, owner, asking, entry, client, retired, ready>>
        BY <1>3, <1>10 DEF Exit, table, mgr
    <2>2. m \in Notes /\ m.cmd = "REMOVE" /\ m.who = s
        BY <1>5
    <2> HIDE DEF m
    <2>3. more \in Seq(Notes) /\ box' = box \o more /\ \A j \in DOMAIN more : more[j] = m
        BY <1>7, <2>1, <2>2
    <2> HIDE DEF more
    <2>4. \A j \in DOMAIN more : /\ more[j].cmd \in {"LAUNCHOK", "ERROR", "REMOVE"}
                                 /\ more[j].who = s /\ more[j].cmd # "LAUNCHOK"
        BY <2>2, <2>3
    <2> QED BY <1>6, <2>1, <2>3, <2>4
<1>11. CASE KILL(s)
    <2> DEFINE m == Note("KILLED", s)
               more == <<m>>
    <2>1. /\ box' = Append(box, m) /\ quota' \in [Askers \cup {"fault"} -> Nat]
          /\ retired' = retired \cup {s} /\ services' = Gone(s)
          /\ UNCHANGED <<instance, owner, asking, entry, client, state, ready>>
        BY <1>3, <1>11 DEF KILL, mgr
    <2>2. m \in Notes /\ m.cmd = "KILLED" /\ m.who = s
        BY <1>5
    <2> HIDE DEF m
    <2>3. more \in Seq(Notes) /\ box' = box \o more /\ \A j \in DOMAIN more : more[j] = m
        BY <1>7, <2>1, <2>2
    <2> HIDE DEF more
    <2>4. \A j \in DOMAIN more : /\ more[j].cmd # "LAUNCH" /\ more[j].who \in Services
                                 /\ more[j].cmd \notin {"LAUNCHOK", "REMOVE"}
        BY <2>2, <2>3
    <2>5. services' \subseteq Services /\ retired \subseteq retired' /\ retired' \subseteq Services
          /\ ready' = ready /\ state' = state
        BY <1>2, <2>1 DEF Gone
    <2> QED BY <1>2, <1>4, <2>1, <2>3, <2>4, <2>5, ServiceStep
<1>12. CASE Retire(s)
    <2> DEFINE more == << >>
    <2>1. /\ retired' = retired \cup {s} /\ box' = box
          /\ UNCHANGED <<services, instance, owner, asking, entry, client, state, ready, quota>>
        BY <1>12 DEF Retire, table, mgr
    <2>2. more \in Seq(Notes) /\ box' = box \o more /\ DOMAIN more = {}
        BY <1>2, <2>1
    <2> HIDE DEF more
    <2>3. services' \subseteq Services /\ retired \subseteq retired' /\ retired' \subseteq Services
          /\ ready' = ready /\ state' = state
        BY <1>2, <2>1
    <2> QED BY <1>2, <1>4, <2>1, <2>2, <2>3, ServiceStep
<1> QED BY <1>8, <1>9, <1>10, <1>11, <1>12

\* Nothing runs for a name at first.
LEMMA InvInit ==
    ASSUME Init PROVE LaunchInv
<1>1. /\ box = << >> /\ services = Started /\ instance = {} /\ ready = Started /\ retired = {}
      /\ state = [s \in Services |-> IF s \in Started THEN "up" ELSE "absent"]
      /\ owner = [s \in Services |-> Nil] /\ asking = {} /\ entry = [n \in Names |-> Nil]
      /\ client = [c \in Clients |-> "idle"] /\ quota \in Quotas
    BY DEF Init, LaunchInit
<1>2. Started \subseteq Services /\ Quotas \subseteq [Askers \cup {"fault"} -> Nat]
    BY LauncherAssumption
<1>3. LaunchTypeOK
    <2>1. box \in Seq(Notes)
        BY <1>1
    <2> QED BY <1>1, <1>2, <2>1 DEF LaunchTypeOK, Notes
<1>4. DOMAIN box = {}
    BY <1>1
<1>5. Requests /\ Reports /\ Starting /\ Unborn
    BY <1>1, <1>4 DEF Requests, Reports, Starting, Unborn
<1>6. \A n \in Names : \A s \in Services : owner[s] # n
    BY <1>1, Distinct
<1>7. NamesSound
    <2>1. Running \subseteq Services
        BY DEF Running, Alive
    <2>2. \A n \in Names : entry[n] \notin Services /\ entry[n] # "launch" /\ n \notin asking
        BY <1>1, Distinct
    <2> QED BY <1>6, <2>1, <2>2 DEF NamesSound
<1>8. ClientsSound
    BY <1>1, Distinct DEF ClientsSound
<1> QED BY <1>3, <1>5, <1>7, <1>8 DEF LaunchInv

\* Every step of the node, the tool and the developer keeps the invariant.
LEMMA InvNext ==
    ASSUME LaunchInv, [Next]_vars PROVE LaunchInv'
<1>1. CASE LaunchNext
    <2>1. CASE NewService \/ \E c \in Clients, n \in Names : Unique(c, n) \/ Query(c, n)
        BY <2>1, AskersStep
    <2>2. CASE Serve
        BY <2>2, ServeStep
    <2>3. CASE \E s \in Services : KILL(s) \/ InitOk(s) \/ InitFails(s) \/ Exit(s) \/ Retire(s)
        BY <2>3, ServicesStep
    <2> QED BY <1>1, <2>1, <2>2, <2>3 DEF LaunchNext
<1>2. ASSUME UNCHANGED launching, quota' \in [Askers \cup {"fault"} -> Nat] PROVE LaunchInv'
    <2>1. UNCHANGED <<box, services, instance, owner, state, ready, retired, asking, entry, client>>
        BY <1>2 DEF launching, table, life, mgr
    <2> QED BY <1>2, <2>1 DEF LaunchInv, LaunchTypeOK, Requests, Reports, Starting, Unborn,
                              NamesSound, ClientsSound, Running, Alive, Absent, IsFree
<1>3. ASSUME UNCHANGED launchVars PROVE LaunchInv'
    BY <1>2, <1>3 DEF launchVars, LaunchInv, LaunchTypeOK
<1>4. CASE Cut
    <2>1. quota' \in [Askers \cup {"fault"} -> Nat] /\ UNCHANGED launching
        BY <1>4, Spent DEF Cut, Fault, LaunchInv
    <2> QED BY <1>2, <2>1
<1>5. CASE Node
    BY <1>1, <1>5 DEF Node, InNode
<1>6. CASE \E s \in Services : Load(s) \/ Save(s)
    BY <1>3, <1>6 DEF Load, Save
<1>7. CASE Script
    BY <1>3, <1>7 DEF Script, Start, List, ClearCache, Call, Reply, CallRefused, CallFails,
                      Finish, GiveUp, Close
<1>8. CASE Edit
    BY <1>3, <1>8 DEF Edit
<1>9. CASE UNCHANGED vars
    BY <1>3, <1>9 DEF vars
<1> QED BY <1>4, <1>5, <1>6, <1>7, <1>8, <1>9 DEF Next

\* In every behaviour of the node, with any number of services, names and
\* clients: a unique service runs once, its handle is given out only when its
\* start function has returned, and a client waits only while somebody is to
\* wake it, whatever fails, exits or is killed and whatever is rolled out.
THEOREM UniqueServices == Spec => []UniqueSound
<1>1. Init => LaunchInv
    BY InvInit
<1>2. LaunchInv /\ [Next]_vars => LaunchInv'
    BY InvNext
<1>3. LaunchInv => UniqueSound
    <2> SUFFICES ASSUME LaunchInv PROVE UniqueSound
        OBVIOUS
    <2>1. LaunchTypeOK /\ NamesSound /\ ClientsSound
        BY DEF LaunchInv
    <2>2. \A s, t \in {x \in Alive : state[x] # "exit"} :
              owner[s] = owner[t] /\ owner[s] \in Names => s = t
        BY <2>1 DEF NamesSound, Running
    <2>3. \A n \in Names : entry[n] = "launch" <=> n \in asking
        BY <2>1 DEF NamesSound
    <2> QED BY <2>1, <2>2, <2>3 DEF UniqueSound, ClientsSound
<1> QED BY <1>1, <1>2, <1>3, PTL DEF Spec


=============================================================================

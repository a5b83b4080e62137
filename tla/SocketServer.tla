---------------------------- MODULE SocketServer ----------------------------
(***************************************************************************)
(* The socket server (socket_server.c): worker threads reserve slots and   *)
(* write commands into a pipe; the socket thread takes commands and poll   *)
(* events in turns, buffers what a socket does not take at once, and       *)
(* reports to the services.  A socket's id is its slot plus a multiple of  *)
(* MAX_SOCKET, and slots are used again.                                   *)
(*                                                                         *)
(* The kernel is a nondeterministic environment: a write takes any number  *)
(* of bytes or fails, a read gives data, end of file, an error or nothing. *)
(* A write buffer list is the sequence of its unsent bytes, each with the  *)
(* number of its packet, its place in the packet and the priority asked    *)
(* for.  Owners (opaque), addresses, socket options and user objects are   *)
(* left out.                                                               *)
(***************************************************************************)
EXTENDS Integers, Sequences, FiniteSets, SequencesExt

CONSTANTS
    Workers,
    MAX_SOCKET,
    Size,        \* bytes of a packet
    MaxId,       \* bound: ids allocated
    MaxSend,     \* bound: packets sent
    Budgets,     \* bounds: how often services ask for each thing in a behaviour
    PipeCap      \* the pipe is full: writers block

(* connect, listen, bind an open descriptor, create a UDP socket *)
Openings == {"O", "L", "B", "U"}

ASSUME SocketAssumption ==
    /\ {MAX_SOCKET, Size, MaxId, PipeCap} \subseteq Nat \ {0}
    /\ MaxSend \in Nat
    /\ \A f \in Budgets : f \in [Openings \cup {"send", "close", "start"} -> Nat]
                          /\ f["send"] <= MaxSend

VARIABLES
    slot,       \* the sockets
    alloc_id,   \* the last id given out
    claims,     \* claims[w]: a slot worker w has reserved and not yet named
    known,      \* ids services have heard of
    pipe,       \* commands on their way to the socket thread
    ev,         \* the events of a batch that are left
    fresh,      \* sp_wait has just returned: an event comes before commands
    checkctrl,
    result,     \* the id of a CLOSE or ERROR a command is about to return, or 0
    run,        \* "on", "abort": an assertion has failed, or "stray": see Stray
    left,       \* what is left of the budget
    closing,    \* ids whose close is requested and not reported
    closed,     \* ids whose end is reported
    haunted,    \* closed ids of which something else was reported later
    wire        \* what the peer of each id got

vars == <<slot, alloc_id, claims, known, pipe, ev, fresh, checkctrl, result, run,
          left, closing, closed, haunted, wire>>

Slots == 0..MAX_SOCKET - 1
Ids == 1..MaxId
HASH_ID(id) == id % MAX_SOCKET
Pipe == -1
None == [c |-> "none", id |-> 0]
Packet(n, low) == [b \in 1..Size |-> [n |-> n, b |-> b, low |-> low]]

Fresh == [type |-> "INVALID", id |-> 0, protocol |-> "TCP", high |-> <<>>, low |-> <<>>,
          wb_size |-> 0, write |-> FALSE]

Types == {"INVALID", "RESERVE", "PLISTEN", "LISTEN", "CONNECTING", "CONNECTED",
          "HALFCLOSE", "PACCEPT", "BIND"}

(* sp_add: what epoll watches *)
Watched == {"LISTEN", "CONNECTING", "CONNECTED", "HALFCLOSE", "BIND"}

Init ==
    /\ slot = [i \in Slots |-> Fresh]
    /\ alloc_id = 0
    /\ claims = [w \in Workers |-> None]
    /\ known = {} /\ pipe = <<>> /\ ev = <<>>
    /\ fresh = FALSE /\ checkctrl = TRUE
    /\ result = 0 /\ run = "on"
    /\ left \in Budgets
    /\ closing = {} /\ closed = {} /\ haunted = {}
    /\ wire = [id \in Ids |-> <<>>]

events == <<ev, fresh, checkctrl>>
reports == <<closing, closed, haunted>>

-----------------------------------------------------------------------------
(* Worker threads *)

Spend(what) == left[what] > 0 /\ left' = [left EXCEPT ![what] = @ - 1]

(* reserve_id: the first of the next MAX_SOCKET ids whose slot is INVALID. *)
FreeIds ==
    {id \in alloc_id + 1 .. alloc_id + MAX_SOCKET :
       /\ slot[HASH_ID(id)].type = "INVALID"
       /\ \A j \in alloc_id + 1 .. id - 1 : slot[HASH_ID(j)].type # "INVALID"}

(* The compare-and-swap of reserve_id, or no slot is free.  Until Request   *)
(* stores id and fd = -1, the slot has those of the socket before it.       *)
Reserve(w, c) ==
    /\ run = "on" /\ claims[w] = None /\ Spend(c)
    /\ \/ \E id \in FreeIds \cap Ids :
            /\ alloc_id' = id
            /\ slot' = [slot EXCEPT ![HASH_ID(id)].type = "RESERVE"]
            /\ claims' = [claims EXCEPT ![w] = [c |-> c, id |-> id]]
       \/ /\ FreeIds = {} /\ alloc_id' = alloc_id + MAX_SOCKET /\ alloc_id' <= MaxId
          /\ UNCHANGED <<slot, claims>>
    /\ UNCHANGED <<known, pipe, events, result, run, reports, wire>>

(* A worker is between the two: the slot still names the descriptor that    *)
(* was closed, and the kernel may have given that number to another socket. *)
Reserving(i) == \E w \in Workers : claims[w] # None /\ HASH_ID(claims[w].id) = i

(* The stores reserve_id ends with: s->id = id and s->fd = -1. *)
Stored(id) == slot' = [slot EXCEPT ![HASH_ID(id)].id = id]

(* The rest of socket_server_listen, bind, connect and udp: send_request of *)
(* the command the slot was reserved for.                                   *)
Request(w) ==
    LET r == claims[w]
    IN  /\ run = "on" /\ r # None /\ Len(pipe) < PipeCap
        /\ Stored(r.id)
        /\ pipe' = Append(pipe, [c |-> r.c, id |-> r.id, x |-> 0])
        /\ known' = known \cup {r.id}
        /\ claims' = [claims EXCEPT ![w] = None]
        /\ UNCHANGED <<alloc_id, events, result, run, left, reports, wire>>

Post(c, id, x) ==
    /\ run = "on" /\ Len(pipe) < PipeCap
    /\ pipe' = Append(pipe, [c |-> c, id |-> id, x |-> x])
    /\ UNCHANGED <<slot, alloc_id, claims, known, events, result, run, closed, haunted, wire>>

(* socket_server_send, socket_server_send_lowpriority, socket_server_udp_send *)
Send(id, c) ==
    /\ id \in known /\ Spend("send")
    /\ slot[HASH_ID(id)].id = id /\ slot[HASH_ID(id)].type # "INVALID"
    /\ Post(c, id, MaxSend - left'["send"])
    /\ UNCHANGED closing

(* socket_server_close and socket_server_shutdown *)
Close(id, shutdown) ==
    /\ id \in known /\ Spend("close")
    /\ closing' = closing \cup {id}
    /\ Post("K", id, IF shutdown THEN 1 ELSE 0)

(* socket_server_start *)
Start(id) ==
    /\ id \in known /\ Spend("start")
    /\ Post("S", id, 0)
    /\ UNCHANGED closing

-----------------------------------------------------------------------------
(* Parts of the socket thread's functions *)

Halt(how) ==
    /\ run' = how /\ result' = 0
    /\ UNCHANGED <<slot, known, reports, wire>>

(* An assertion has failed. *)
Abort == Halt("abort")

(* What was meant for a socket that is closed went, through a slot that is  *)
(* being reserved, to whatever has its descriptor's number now, or the      *)
(* reserved slot was marked HALFCLOSE.  What comes then is not modelled.    *)
(* (Whether the number is in use, or was never given, is not told apart:    *)
(* both outcomes are possible.)                                             *)
Stray == Halt("stray")

Goes(i, s) == slot' = [slot EXCEPT ![i] = s] /\ run' = run

(* Faulty form: the type is not reset. *)
Closed_Typed(s) == [s EXCEPT !.high = <<>>, !.low = <<>>, !.write = FALSE]

(* force_close: a slot that is not INVALID and, by its assertion, not RESERVE *)
Closed(s) ==
    [s EXCEPT !.type = "INVALID", !.high = <<>>, !.low = <<>>, !.write = FALSE]

(* A CLOSE or ERROR that says the socket id has ended *)
EndReported(id) ==
    /\ closing' = closing \ {id} /\ closed' = closed \cup {id}
    /\ UNCHANGED haunted

(* An OPEN, DATA, UDP or ACCEPT, or an ERROR that ends nothing *)
Reported(id) ==
    /\ haunted' = haunted \cup ({id} \cap closed)
    /\ UNCHANGED <<closing, closed>>

Quiet == UNCHANGED reports

Buffered(s) == s.high \o s.low
Uncomplete(list) == list # <<>> /\ list[1].b # 1

(* raise_uncomplete *)
Raised(s) ==
    LET rest == Size - s.low[1].b + 1     \* bytes left of the first write_buffer
    IN  IF s.high = <<>> /\ Uncomplete(s.low)
        THEN [s EXCEPT !.high = SubSeq(s.low, 1, rest), !.low = SubSeq(@, rest + 1, Len(@))]
        ELSE s

(* send_list_tcp: the kernel takes any part of the bytes. *)
TakenOfStream(bytes) == 0..Len(bytes)

(* send_list_udp: the kernel takes whole datagrams.  Any error of sendto    *)
(* leaves the datagram at the head of its list, so 0 may be for ever.       *)
TakenOfDatagrams(bytes) == {k \in 0..Len(bytes) : k % Size = 0}

(* send_list: how many bytes may be taken. *)
Takes(s, bytes) ==
    IF s.protocol = "UDP" THEN TakenOfDatagrams(bytes) ELSE TakenOfStream(bytes)

(* The peer of id gets the first k bytes. *)
Written(id, bytes, k) == wire' = [wire EXCEPT ![id] = @ \o SubSeq(bytes, 1, k)]

(* send_buffer with k bytes taken: send_list of both lists, then step 3. *)
Flushed(s, k) ==
    LET h == IF k < Len(s.high) THEN k ELSE Len(s.high)
    IN  Raised([s EXCEPT !.high = SubSeq(@, h + 1, Len(@)), !.wb_size = @ - k,
                         !.low = SubSeq(@, k - h + 1, Len(@))])

(* Faulty form: the whole packet is appended. *)
Appended_Whole(s, list, packet, n) ==
    [s EXCEPT ![list] = @ \o packet, !.wb_size = @ + Size]

(* append_sendbuffer: what is left of a packet after n bytes *)
Appended(s, list, packet, n) ==
    [s EXCEPT ![list] = @ \o SubSeq(packet, n + 1, Size), !.wb_size = @ + Size - n]

-----------------------------------------------------------------------------
(* Commands.  r is the command, s the slot its id hashes to; ends tells     *)
(* that CLOSE or ERROR is returned, after clear_closed_event (Clear).       *)

Ends(id) == result' = id
Silent == result' = 0

(* new_fd, and its failure to add the descriptor to epoll when add is set *)
NewFd(s, type, protocol, write) ==
    [s EXCEPT !.type = type, !.protocol = protocol, !.write = write, !.wb_size = 0]
Named(s) == s.type = "RESERVE" /\ Buffered(s) = <<>>

(* Faulty form: the slot stays reserved. *)
Failed_Kept(s) == s

(* The slot is given back when its command fails. *)
Failed(s) == [s EXCEPT !.type = "INVALID"]

open_socket(r, s) ==
    /\ r.c = "O"
    /\ \/ Named(s) /\ Goes(HASH_ID(r.id), NewFd(s, "CONNECTING", "TCP", TRUE))
          /\ Silent /\ Quiet
       \/ Named(s) /\ Goes(HASH_ID(r.id), NewFd(s, "CONNECTED", "TCP", FALSE))
          /\ Silent /\ Reported(r.id)
       \/ Goes(HASH_ID(r.id), Failed(s)) /\ Ends(r.id) /\ Quiet
    /\ UNCHANGED <<known, wire>>

listen_socket(r, s) ==
    /\ r.c = "L" /\ Named(s)
    /\ Goes(HASH_ID(r.id), NewFd(s, "PLISTEN", "TCP", FALSE))
    /\ Silent /\ Quiet /\ UNCHANGED <<known, wire>>

(* A bound descriptor keeps its own protocol here, to tell it from others   *)
(* when it is half closed.                                                  *)
bind_socket(r, s) ==
    /\ r.c = "B"
    /\ \/ Named(s) /\ Goes(HASH_ID(r.id), NewFd(s, "BIND", "FD", FALSE))
          /\ Silent /\ Reported(r.id)
       \/ Goes(HASH_ID(r.id), Failed(s)) /\ Ends(r.id) /\ Quiet
    /\ UNCHANGED <<known, wire>>

(* A failure is not reported. *)
add_udp_socket(r, s) ==
    /\ r.c = "U"
    /\ \/ Named(s) /\ Goes(HASH_ID(r.id), NewFd(s, "CONNECTED", "UDP", FALSE))
       \/ Goes(HASH_ID(r.id), Failed(s))
    /\ Silent /\ Quiet /\ UNCHANGED <<known, wire>>

(* assert(s->type == SOCKET_TYPE_RESERVE) and check_wb_list of new_fd *)
new_fd_asserts(r, s) == r.c \in {"O", "L", "B", "U"} /\ ~Named(s) /\ Abort

Stale(r, s) == s.type = "INVALID" \/ s.id # r.id

start_socket(r, s) ==
    /\ r.c = "S"
    /\ IF Stale(r, s) THEN Ends(r.id) /\ Quiet /\ UNCHANGED <<slot, run>>
       ELSE \/ /\ s.type \in {"PACCEPT", "PLISTEN"}
               /\ \/ Goes(HASH_ID(r.id), [s EXCEPT !.type =
                           IF @ = "PACCEPT" THEN "CONNECTED" ELSE "LISTEN"])
                     /\ Silent /\ Reported(r.id)
                  \/ Goes(HASH_ID(r.id), Closed(s)) /\ Ends(r.id) /\ Quiet
            \/ s.type = "CONNECTED" /\ Silent /\ Reported(r.id) /\ UNCHANGED <<slot, run>>
            \/ s.type \notin {"PACCEPT", "PLISTEN", "CONNECTED"}
               /\ Silent /\ Quiet /\ UNCHANGED <<slot, run>>
    /\ UNCHANGED <<known, wire>>

(* Faulty form: the write event is not asked for. *)
WriteOn_Not(s) == s

(* sp_write(..., true) *)
WriteOn(s) == [s EXCEPT !.write = TRUE]

send_socket(r, s) ==
    LET packet == Packet(r.x, r.c = "P")
        list == IF r.c = "P" THEN "low" ELSE "high"
        ignored == Stale(r, s) \/ s.type \in {"HALFCLOSE", "PACCEPT", "PLISTEN", "LISTEN"}
        direct == Buffered(s) = <<>> /\ s.type = "CONNECTED"
    IN  /\ r.c \in {"D", "P"}
        /\ \/ ignored /\ Silent /\ UNCHANGED <<slot, run, wire>>
           \/ /\ ~ignored /\ direct /\ Silent
              /\ \E n \in Takes(s, packet) :
                   /\ Written(r.id, packet, n)
                   /\ Goes(HASH_ID(r.id), IF n = Size THEN s ELSE
                        WriteOn(Appended(s, IF s.protocol = "UDP" THEN list ELSE "high",
                                         packet, n)))
           \/ /\ ~ignored /\ direct /\ s.protocol # "UDP"                  \* write error
              /\ Goes(HASH_ID(r.id), Closed(s)) /\ Ends(r.id) /\ UNCHANGED wire
           \/ /\ ~ignored /\ ~direct /\ Silent
              /\ Goes(HASH_ID(r.id), Appended(s, list, packet, 0)) /\ UNCHANGED wire
        /\ Quiet /\ UNCHANGED known

(* A slot that is RESERVE and has the id is one a worker is reserving: what *)
(* is buffered is written to the old number, and force_close asserts.       *)
close_socket(r, s) ==
    /\ r.c = "K"
    /\ \/ Stale(r, s) /\ Ends(r.id) /\ UNCHANGED <<slot, run, reports, wire>>
       \/ ~Stale(r, s) /\ s.type = "RESERVE" /\ Abort
       \/ ~Stale(r, s) /\ s.type = "RESERVE" /\ Buffered(s) # <<>> /\ r.x = 0 /\ Stray
       \/ /\ ~Stale(r, s) /\ s.type # "RESERVE"
          /\ Buffered(s) # <<>> /\ s.protocol # "UDP"                      \* write error
          /\ Goes(HASH_ID(r.id), Closed(s)) /\ Ends(r.id) /\ UNCHANGED <<reports, wire>>
       \/ /\ ~Stale(r, s) /\ s.type # "RESERVE"
          /\ \E k \in Takes(s, Buffered(s)) :
               LET f == Flushed(s, k)
               IN  /\ Written(r.id, Buffered(s), k)
                   /\ IF r.x = 1 \/ Buffered(f) = <<>>
                      THEN Goes(HASH_ID(r.id), Closed(s)) /\ Ends(r.id)
                      ELSE Goes(HASH_ID(r.id), [f EXCEPT !.type = "HALFCLOSE"]) /\ Silent
          /\ Quiet
    /\ UNCHANGED known

(* ctrl_cmd; clear_closed_event is a step of its own, for workers may       *)
(* reserve the slot before it.                                              *)
Command ==
    /\ run = "on" /\ ~fresh /\ checkctrl /\ result = 0 /\ pipe # <<>>
    /\ LET r == Head(pipe)
           s == slot[HASH_ID(r.id)]
       IN  \/ open_socket(r, s) \/ listen_socket(r, s) \/ bind_socket(r, s)
           \/ add_udp_socket(r, s) \/ new_fd_asserts(r, s) \/ start_socket(r, s)
           \/ send_socket(r, s) \/ close_socket(r, s)
    /\ pipe' = Tail(pipe)
    /\ UNCHANGED <<alloc_id, claims, events, left>>

(* clear_closed_event, and the report that was held back. *)
Clear ==
    LET s(i) == slot[ev[i].s]
        hit == {i \in 1..Len(ev) : ev[i].s # Pipe /\ s(i).type = "INVALID"
                                                  /\ s(i).id = result}
    IN  /\ run = "on" /\ result # 0
        /\ ev' = IF hit = {} THEN ev
                 ELSE [ev EXCEPT ![CHOOSE i \in hit : \A j \in hit : i <= j].s = Pipe]
        /\ EndReported(result) /\ result' = 0
        /\ UNCHANGED <<slot, alloc_id, claims, known, pipe, fresh, checkctrl, run, left, wire>>

-----------------------------------------------------------------------------
(* Events *)

(* sp_wait: the pipe, if a command waits, and sockets that are readable,    *)
(* or writable when that is asked for.  All of them may be readable.        *)
Flags(i) ==
    IF i = Pipe \/ slot[i].type = "LISTEN" THEN {<<TRUE, FALSE>>}
    ELSE IF slot[i].type = "CONNECTING" THEN {<<FALSE, TRUE>>}
    ELSE {<<TRUE, FALSE>>} \cup (IF slot[i].write THEN {<<FALSE, TRUE>>, <<TRUE, TRUE>>} ELSE {})

Poll(batch) ==
    /\ run = "on" /\ result = 0 /\ ev = <<>> /\ ~(checkctrl /\ pipe # <<>>)
    /\ \E order \in SetToSeqs(batch) : \E f \in [batch -> UNION {Flags(i) : i \in batch}] :
         /\ \A i \in batch : f[i] \in Flags(i)
         /\ ev' = [j \in DOMAIN order |-> [s |-> order[j], read |-> f[order[j]][1],
                                           write |-> f[order[j]][2]]]
    /\ fresh' = TRUE /\ checkctrl' = TRUE
    /\ UNCHANGED <<slot, alloc_id, claims, known, pipe, result, run, left, reports, wire>>

Pollable == {i \in Slots : slot[i].type \in Watched} \cup (IF pipe = <<>> THEN {} ELSE {Pipe})

(* The next event is taken when sp_wait has just returned or no command     *)
(* waits.                                                                   *)
EventTurn ==
    /\ run = "on" /\ result = 0 /\ ev # <<>> /\ (fresh \/ ~checkctrl \/ pipe = <<>>)
    /\ UNCHANGED <<claims, pipe, left>>

Taken(again) ==
    /\ ev' = again \o Tail(ev)
    /\ checkctrl' = fresh /\ fresh' = FALSE

(* A command's event, one that was cleared, or one of a closed socket *)
SkipEvent ==
    /\ Head(ev).s # Pipe => slot[Head(ev).s].type = "INVALID"
    /\ Taken(<<>>) /\ UNCHANGED <<slot, alloc_id, known, result, run, reports, wire>>

report_connect(i, s) ==
    /\ s.type = "CONNECTING"
    /\ \/ Goes(i, [s EXCEPT !.type = "CONNECTED", !.write = Buffered(s) # <<>>])
          /\ Reported(s.id)
       \/ Goes(i, Closed(s)) /\ EndReported(s.id)
    /\ Taken(<<>>) /\ UNCHANGED <<alloc_id, known, result, wire>>

(* accept fails (out of descriptors it reports an ERROR, which ends         *)
(* nothing), there is no slot, or the new socket waits to be started.       *)
report_accept(i, s) ==
    /\ s.type = "LISTEN"
    /\ \/ (Reported(s.id) \/ Quiet) /\ UNCHANGED <<slot, run, alloc_id, known>>
       \/ /\ FreeIds = {} /\ alloc_id' = alloc_id + MAX_SOCKET /\ alloc_id' <= MaxId
          /\ UNCHANGED <<slot, run, known, reports>>
       \/ \E id \in FreeIds \cap Ids :
            /\ alloc_id' = id
            /\ IF Buffered(slot[HASH_ID(id)]) # <<>> THEN Abort    \* check_wb_list
               ELSE /\ known' = known \cup {id} /\ Reported(s.id)
                    /\ Goes(HASH_ID(id), NewFd([slot[HASH_ID(id)] EXCEPT !.id = id],
                                               "PACCEPT", "TCP", FALSE))
    /\ Taken(<<>>) /\ UNCHANGED <<result, wire>>

Plain(s) == s.type \notin {"CONNECTING", "LISTEN", "INVALID"}

(* There is a descriptor to read and to write, rightly or not. *)
HasFd(i, s) == s.type = "RESERVE" => Reserving(i)

(* read or recvfrom fails, or read the end: force_close, whose assertion a  *)
(* reserved slot does not pass.                                             *)
ReadEnds(i, s) ==
    /\ \/ s.type = "RESERVE" /\ Abort
       \/ /\ s.type # "RESERVE" /\ Goes(i, Closed(s)) /\ EndReported(s.id)
          /\ UNCHANGED <<result, known, wire>>
    /\ Taken(<<>>)

ReadKeeps(again) == Taken(again) /\ UNCHANGED <<slot, run, result, known, wire>>

(* The end; nothing to read, or data that a half closed socket drops; data. *)
(* Of a slot that is being reserved the data is another socket's, and the   *)
(* id the old one.  again is what is left to do of the event.               *)
forward_message_tcp(i, s, again) ==
    \/ ReadEnds(i, s)
    \/ HasFd(i, s) /\ Quiet /\ ReadKeeps(again)
    \/ HasFd(i, s) /\ s.type # "HALFCLOSE" /\ Reported(s.id) /\ ReadKeeps(again)

(* An error; nothing, or a datagram of the other address family; a datagram, *)
(* after which the same event is taken again.                                *)
forward_message_udp(i, s, again) ==
    \/ ReadEnds(i, s)
    \/ HasFd(i, s) /\ Quiet /\ ReadKeeps(again)
    \/ HasFd(i, s) /\ Reported(s.id) /\ ReadKeeps(<<Head(ev)>>)

ReadEvent(i, s) ==
    LET e == Head(ev)
        again == IF e.write THEN <<[e EXCEPT !.read = FALSE]>> ELSE <<>>
    IN  /\ Plain(s) /\ e.read
        /\ IF s.protocol = "UDP" THEN forward_message_udp(i, s, again)
                                 ELSE forward_message_tcp(i, s, again)
        /\ UNCHANGED alloc_id

(* Faulty form: a drained socket is not noticed. *)
Drained_Never(s, k) == FALSE

(* step 4 of send_buffer: both lists are empty, and low was before *)
Drained(s, k) == s.low = <<>> /\ k = Len(s.high)

(* send_buffer when k bytes are taken *)
WriteEvent(i, s, k) ==
    LET e == Head(ev)
        done == Drained(s, k)
    IN  /\ Plain(s) /\ e.write /\ ~e.read
        /\ s.type = "RESERVE" =>
             k = 0 /\ (HasFd(i, s) \/ s.protocol = "UDP" \/ Buffered(s) = <<>>)
        /\ Written(s.id, Buffered(s), k)
        /\ IF done /\ s.type = "HALFCLOSE"
           THEN Goes(i, Closed(s)) /\ EndReported(s.id)
           ELSE Goes(i, [Flushed(s, k) EXCEPT !.write = @ /\ ~done]) /\ Quiet
        /\ Taken(<<>>) /\ UNCHANGED <<alloc_id, known, result>>

(* send_list_tcp fails, or goes to the number's new owner (sp_write too). *)
WriteFails(i, s) ==
    LET e == Head(ev)
        fails == Buffered(s) # <<>> /\ s.protocol # "UDP"
    IN  /\ Plain(s) /\ e.write /\ ~e.read
        /\ \/ fails /\ s.type = "RESERVE" /\ Abort
           \/ s.type = "RESERVE" /\ Reserving(i) /\ Stray
           \/ /\ fails /\ s.type # "RESERVE"
              /\ Goes(i, Closed(s)) /\ EndReported(s.id) /\ UNCHANGED <<known, result, wire>>
        /\ Taken(<<>>) /\ UNCHANGED alloc_id

Event ==
    /\ EventTurn
    /\ \/ SkipEvent
       \/ /\ Head(ev).s # Pipe
          /\ LET i == Head(ev).s
                 s == slot[i]
             IN  \/ report_connect(i, s) \/ report_accept(i, s) \/ ReadEvent(i, s)
                 \/ \E k \in Takes(s, Buffered(s)) : WriteEvent(i, s, k)
                 \/ WriteFails(i, s)

-----------------------------------------------------------------------------
Next ==
    \/ \E w \in Workers : Request(w) \/ \E c \in Openings : Reserve(w, c)
    \/ \E id \in known : \/ \E c \in {"D", "P"} : Send(id, c)
                         \/ \E x \in BOOLEAN : Close(id, x)
                         \/ Start(id)
    \/ Command \/ Clear \/ Event
    \/ \E batch \in (SUBSET Pollable) \ {{}} : Poll(batch)

Spec == Init /\ [][Next]_vars

(* A peer that reads, or a connection that is made or refused, in time.     *)
(* Nothing of the kind is assumed of datagrams, whose errors may last.      *)
PollWritable(i) ==
    /\ i \in Pollable
    /\ \E batch \in SUBSET Pollable : i \in batch /\ Poll(batch)
    /\ \E j \in DOMAIN ev' : ev'[j].s = i /\ ev'[j].write
Progress(i) ==
    /\ EventTurn /\ Head(ev).s = i
    /\ LET s == slot[i]
       IN  \/ report_connect(i, s)
           \/ \E k \in Takes(s, Buffered(s)) :
                s.protocol # "UDP" /\ (k > 0 \/ Buffered(s) = <<>>) /\ WriteEvent(i, s, k)

(* The socket thread runs, a worker that has reserved a slot goes on, and   *)
(* the kernel keeps reporting and taking what is to be written.             *)
Fairness ==
    /\ WF_vars(Command) /\ WF_vars(Clear) /\ WF_vars(Event)
    /\ WF_vars(\E batch \in SUBSET Pollable : Pipe \in batch /\ Poll(batch))
    /\ \A w \in Workers : WF_vars(Request(w))
    /\ \A i \in Slots : SF_vars(PollWritable(i)) /\ SF_vars(Progress(i))

FairSpec == Spec /\ Fairness

-----------------------------------------------------------------------------
Live == {"CONNECTING", "CONNECTED", "HALFCLOSE", "BIND"}

(* Type invariant of the sockets and of what moves between the threads. *)
TypeOK ==
    /\ \A i \in Slots : /\ slot[i].type \in Types
                        /\ slot[i].id \in Ids \cup {0}
                        /\ slot[i].id # 0 => HASH_ID(slot[i].id) = i
    /\ alloc_id \in 0..MaxId
    /\ result \in Ids \cup {0}
    /\ {pipe[j].id : j \in DOMAIN pipe} \subseteq known /\ known \subseteq Ids
    /\ {ev[j].s : j \in DOMAIN ev} \subseteq Slots \cup {Pipe}

(* wb_size, which services are warned about, is what is really buffered. *)
BufferSize ==
    \A i \in Slots : slot[i].type \in Live => slot[i].wb_size = Len(Buffered(slot[i]))

(* What a peer gets is whole packets: no packet starts inside another, none *)
(* is sent twice or with a hole, and packets of one priority keep their     *)
(* order, however writes are cut short and priorities mixed.  A low packet  *)
(* that was begun is never left in the low list (the assertion of           *)
(* send_buffer), and the sizes are right.                                   *)
PacketsWhole ==
    /\ TypeOK /\ BufferSize
    /\ \A id \in Ids : \A j \in DOMAIN wire[id] :
         LET x == wire[id][j]
         IN  /\ IF x.b = 1 THEN j = 1 \/ wire[id][j - 1].b = Size
                ELSE j > 1 /\ wire[id][j - 1] = [x EXCEPT !.b = @ - 1]
             /\ \A h \in 1..j - 1 : wire[id][h].low = x.low =>
                  wire[id][h].n < x.n \/ (wire[id][h].n = x.n /\ wire[id][h].b < x.b)
    /\ \A i \in Slots : ~Uncomplete(slot[i].low)

(* A reserved slot is not leaked: whoever reserved it has still to ask, or  *)
(* the command that will use or free it is on its way.                      *)
NoSlotLost ==
    run = "on" => \A i \in Slots : slot[i].type = "RESERVE" =>
      \/ \E w \in Workers : claims[w] # None /\ HASH_ID(claims[w].id) = i
      \/ \E j \in DOMAIN pipe : pipe[j].c \in Openings /\ HASH_ID(pipe[j].id) = i

(* After the end of a socket was reported, nothing else is reported under   *)
(* its id, although its slot is used again, late commands name it and       *)
(* events of the batch point to the slot; with one exception, which the     *)
(* code has: an event of a slot that a worker is just reserving.            *)
ClosedForGood ==
    [][haunted' # haunted =>
         EventTurn /\ slot[Head(ev).s].type = "RESERVE" /\ Reserving(Head(ev).s)]_vars

(* Who never has to take what is left: a bound descriptor, which is not     *)
(* watched for writing, and a datagram socket, whose error may last.        *)
MayKeep(s) == s.protocol \in {"FD", "UDP"} /\ Buffered(s) # <<>>

(* Every close is answered with CLOSE or ERROR, unless an assertion ends    *)
(* the process or what was written went astray.  Half closed sockets that   *)
(* may keep their data are the exception.                                   *)
CloseAnswered ==
    []<>(run # "on" \/ \A id \in closing :
            LET s == slot[HASH_ID(id)]
            IN  s.id = id /\ s.type = "HALFCLOSE" /\ MayKeep(s))

(* What is buffered for a stream is sent in the end, or the socket ends.    *)
(* (Data for a bound descriptor waits for its close, and a datagram that    *)
(* cannot be sent for ever.)                                                *)
BuffersDrain ==
    []<>(run # "on" \/ \A i \in Slots :
            slot[i].type \in Live => Buffered(slot[i]) = <<>> \/ MayKeep(slot[i]))

(* The assertions of force_close and new_fd.  They can fail (README,        *)
(* Observations).                                                           *)
NoAssertionFails == run # "abort"

=============================================================================

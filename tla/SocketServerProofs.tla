------------------------- MODULE SocketServerProofs -------------------------
(***************************************************************************)
(* Proofs about the socket server of module SocketServer, for any number   *)
(* of slots, workers and ids and any length of pipe: no reserved slot is   *)
(* lost (NoSlotLost), nothing is reported of a socket after its end,       *)
(* although its slot is used again at once, but what an event finds in a   *)
(* slot that is just being reserved (ClosedForGood), and a peer gets whole *)
(* packets in order, however writes are cut (PacketsWhole).                *)
(*                                                                         *)
(* An id names the same slot again after MAX_SOCKET others, a slot keeps   *)
(* the id of its last socket until a worker writes the next one, and the   *)
(* worker does so some time after it reserved the slot.  The argument is   *)
(* about who holds a reserved slot: one worker that has not asked yet      *)
(* (ClaimsHeld), or one command in the pipe (OpeningsHeld), which is the   *)
(* first command of its id.  So the id of a socket that has ended is found *)
(* in its slot only while the slot is free or reserved (Ended): commands   *)
(* report nothing there, and events only of one that a worker has reserved *)
(* and not yet named.                                                      *)
(*                                                                         *)
(* PacketInv, beside it, takes what a peer got together with what is       *)
(* buffered at high priority: these bytes are whole packets, and so is     *)
(* the low list, because raise_uncomplete moves a low packet that was      *)
(* begun to the high one (Flow).  Their numbers rise at each priority,     *)
(* for a packet in the pipe is newer than all that was ever buffered or    *)
(* written (Coming, Below).  A write takes some of the high bytes and then *)
(* of the low ones; the lemmas on SubSeq say that what is left again has   *)
(* this form.                                                              *)
(***************************************************************************)
EXTENDS SocketServer, FiniteSetTheorems, SequenceTheorems, TLAPS

\* The fields of a socket.
SockFields == {"type", "id", "protocol", "high", "low", "wb_size", "write"}
\* A command in the pipe.
Cmds == [c : Openings \cup {"S", "D", "P", "K"}, id : Nat \ {0}, x : Int]
\* An event of a batch.
Evts == [s : Slots \cup {Pipe}, read : BOOLEAN, write : BOOLEAN]
\* A slot without a socket.
Idle == {"INVALID", "RESERVE"}

\* Ids whose end is reported or about to be.
Over == closed \cup ({result} \ {0})

\* The types of what the argument is about.
Shape ==
    /\ slot = [i \in Slots |-> slot[i]]
    /\ \A i \in Slots :
          /\ DOMAIN slot[i] = SockFields
          /\ slot[i].id \in Nat
          /\ slot[i].id # 0 => HASH_ID(slot[i].id) = i
          /\ slot[i].type \notin Idle => slot[i].id \in known
    /\ alloc_id \in Nat
    /\ known \subseteq 1..alloc_id
    /\ Over \subseteq known
    /\ claims = [w \in Workers |-> claims[w]]
    /\ \A w \in Workers : claims[w] # None =>
          claims[w].c \in Openings /\ claims[w].id \in (1..alloc_id) \ known
    /\ pipe \in Seq(Cmds)
    /\ \A j \in DOMAIN pipe : pipe[j].id \in known

\* The events of a batch, and what services may still ask for.
Others ==
    /\ ev \in Seq(Evts)
    /\ left \in [Openings \cup {"send", "close", "start"} -> Nat]

\* A worker that has reserved a slot is the only one that holds it.
ClaimsHeld ==
    \A w \in Workers : claims[w] # None =>
       LET i == HASH_ID(claims[w].id)
       IN  /\ slot[i].type = "RESERVE"
           /\ \A v \in Workers \ {w} : claims[v] # None => HASH_ID(claims[v].id) # i
           /\ \A j \in DOMAIN pipe : pipe[j].c \in Openings => HASH_ID(pipe[j].id) # i

\* So is the command that uses it, and it is the first of its id.
OpeningsHeld ==
    \A j \in DOMAIN pipe : pipe[j].c \in Openings =>
       LET i == HASH_ID(pipe[j].id)
       IN  /\ slot[i].type = "RESERVE" /\ slot[i].id = pipe[j].id
           /\ \A k \in DOMAIN pipe : k < j => pipe[k].id # pipe[j].id

\* A socket that has ended is not in its slot any more, unless the slot is
\* free or reserved again, and no command opens it.
Ended ==
    \A id \in Over :
       /\ slot[HASH_ID(id)].id = id => slot[HASH_ID(id)].type \in Idle
       /\ \A j \in DOMAIN pipe : pipe[j].c \in Openings => pipe[j].id # id

\* The inductive invariant.
SocketInv ==
    /\ Shape /\ Others /\ ClaimsHeld /\ OpeningsHeld /\ Ended
    /\ NoSlotLost

-----------------------------------------------------------------------------
(* Slots and the pipe *)

\* An id hashes to a slot.
LEMMA HashSlot ==
    ASSUME NEW id \in Nat PROVE HASH_ID(id) \in Slots
<1>1. MAX_SOCKET \in Nat \ {0}
    BY SocketAssumption
<1>2. id % MAX_SOCKET \in 0..(MAX_SOCKET - 1)
    BY <1>1
<1> QED BY <1>2 DEF HASH_ID, Slots

\* Taking the first command moves the others one place.
LEMMA Popped ==
    ASSUME pipe \in Seq(Cmds), pipe # << >>, pipe' = Tail(pipe)
    PROVE  /\ pipe' \in Seq(Cmds)
           /\ 1 \in DOMAIN pipe /\ Head(pipe) = pipe[1] /\ pipe[1] \in Cmds
           /\ \A j \in DOMAIN pipe' : /\ j \in Nat /\ j + 1 \in DOMAIN pipe
                                      /\ pipe'[j] = pipe[j + 1] /\ j + 1 > 1
           /\ \A j \in DOMAIN pipe : j # 1 => j - 1 \in DOMAIN pipe' /\ pipe'[j - 1] = pipe[j]
<1>1. Len(pipe) \in Nat \ {0} /\ DOMAIN pipe = 1..Len(pipe)
    OBVIOUS
<1>2. pipe' \in Seq(Cmds) /\ Len(pipe') = Len(pipe) - 1
      /\ \A j \in 1..Len(pipe') : pipe'[j] = pipe[j + 1]
    OBVIOUS
<1>3. DOMAIN pipe' = 1..(Len(pipe) - 1)
    BY <1>2
<1>4. Head(pipe) = pipe[1] /\ pipe[1] \in Cmds
    BY <1>1
<1>5. \A j \in DOMAIN pipe' : j \in Nat /\ j + 1 \in DOMAIN pipe /\ pipe'[j] = pipe[j + 1] /\ j + 1 > 1
    BY <1>1, <1>2, <1>3
<1>6. \A j \in DOMAIN pipe : j # 1 => j - 1 \in DOMAIN pipe' /\ pipe'[j - 1] = pipe[j]
    <2> SUFFICES ASSUME NEW j \in DOMAIN pipe, j # 1
                 PROVE  j - 1 \in DOMAIN pipe' /\ pipe'[j - 1] = pipe[j]
        OBVIOUS
    <2>1. j - 1 \in 1..(Len(pipe) - 1) /\ (j - 1) + 1 = j
        BY <1>1
    <2> QED BY <1>2, <1>3, <2>1
<1> QED BY <1>1, <1>2, <1>4, <1>5, <1>6

\* A command more at the end.
LEMMA Pushed ==
    ASSUME pipe \in Seq(Cmds), NEW r \in Cmds, pipe' = Append(pipe, r)
    PROVE  /\ pipe' \in Seq(Cmds)
           /\ \E l \in DOMAIN pipe' :
                /\ pipe'[l] = r /\ l \notin DOMAIN pipe /\ l \in Nat
                /\ \A j \in DOMAIN pipe' : (j \in DOMAIN pipe \/ j = l) /\ j \in Nat /\ j <= l
           /\ \A j \in DOMAIN pipe : j \in DOMAIN pipe' /\ pipe'[j] = pipe[j]
<1>1. Len(pipe) \in Nat /\ DOMAIN pipe = 1..Len(pipe)
    OBVIOUS
<1>2. pipe' \in Seq(Cmds) /\ DOMAIN pipe' = 1..(Len(pipe) + 1)
      /\ pipe'[Len(pipe) + 1] = r /\ \A j \in 1..Len(pipe) : pipe'[j] = pipe[j]
    OBVIOUS
<1> DEFINE l == Len(pipe) + 1
<1>3. l \in DOMAIN pipe' /\ pipe'[l] = r /\ l \notin DOMAIN pipe /\ l \in Nat
    BY <1>1, <1>2
<1>4. \A j \in DOMAIN pipe' : (j \in DOMAIN pipe \/ j = l) /\ j \in Nat /\ j <= l
    BY <1>1, <1>2
<1>5. \A j \in DOMAIN pipe : j \in DOMAIN pipe' /\ pipe'[j] = pipe[j]
    BY <1>1, <1>2
<1> QED BY <1>2, <1>3, <1>4, <1>5

\* Taking a command, or none, leaves the others, in their order.
LEMMA Rest ==
    ASSUME pipe \in Seq(Cmds), OpeningsHeld,
           \/ pipe' = pipe
           \/ pipe # << >> /\ pipe' = Tail(pipe)
    PROVE  /\ pipe' \in Seq(Cmds)
           /\ \A j \in DOMAIN pipe' : \E k \in DOMAIN pipe : pipe'[j] = pipe[k]
           /\ \A k \in DOMAIN pipe :
                 \/ \E j \in DOMAIN pipe' : pipe'[j] = pipe[k]
                 \/ pipe # << >> /\ pipe' = Tail(pipe) /\ pipe[k] = Head(pipe)
           /\ \A j \in DOMAIN pipe', k \in DOMAIN pipe' :
                 pipe'[j].c \in Openings /\ k < j => pipe'[k].id # pipe'[j].id
<1>1. CASE pipe' = pipe
    <2>1. \A j \in DOMAIN pipe, k \in DOMAIN pipe :
             pipe[j].c \in Openings /\ k < j => pipe[k].id # pipe[j].id
        BY DEF OpeningsHeld
    <2> QED BY <1>1, <2>1
<1>2. CASE pipe # << >> /\ pipe' = Tail(pipe)
    <2>1. /\ pipe' \in Seq(Cmds)
          /\ 1 \in DOMAIN pipe /\ Head(pipe) = pipe[1]
          /\ \A j \in DOMAIN pipe' : /\ j \in Nat /\ j + 1 \in DOMAIN pipe
                                     /\ pipe'[j] = pipe[j + 1]
          /\ \A j \in DOMAIN pipe : j # 1 => j - 1 \in DOMAIN pipe' /\ pipe'[j - 1] = pipe[j]
        BY <1>2, Popped
    <2>2. \A j \in DOMAIN pipe' : \E k \in DOMAIN pipe : pipe'[j] = pipe[k]
        BY <2>1
    <2>3. ASSUME NEW k \in DOMAIN pipe
          PROVE  (\E j \in DOMAIN pipe' : pipe'[j] = pipe[k]) \/ pipe[k] = Head(pipe)
        BY <2>1
    <2>4. ASSUME NEW j \in DOMAIN pipe', NEW k \in DOMAIN pipe', pipe'[j].c \in Openings, k < j
          PROVE  pipe'[k].id # pipe'[j].id
        <3>1. j + 1 \in DOMAIN pipe /\ k + 1 \in DOMAIN pipe /\ k + 1 < j + 1
            BY <2>1, <2>4
        <3>2. pipe[j + 1].c \in Openings
            BY <2>1, <2>4
        <3>3. pipe[k + 1].id # pipe[j + 1].id
            BY <3>1, <3>2 DEF OpeningsHeld
        <3> QED BY <2>1, <3>3
    <2> QED BY <1>2, <2>1, <2>2, <2>3, <2>4
<1> QED BY <1>1, <1>2

\* The ids that have ended, those in the pipe and those claimed hash to slots.
LEMMA IdsHash ==
    ASSUME Shape
    PROVE  /\ \A id \in known : id \in Nat \ {0} /\ HASH_ID(id) \in Slots
           /\ \A id \in Over : id \in known
           /\ \A j \in DOMAIN pipe : pipe[j].id \in known
           /\ \A w \in Workers : claims[w] # None =>
                 claims[w].id \in Nat \ {0} /\ HASH_ID(claims[w].id) \in Slots
<1>1. alloc_id \in Nat /\ known \subseteq 1..alloc_id
    BY DEF Shape
<1>2. \A id \in 1..alloc_id : id \in Nat \ {0} /\ HASH_ID(id) \in Slots
    BY <1>1, HashSlot
<1> QED BY <1>1, <1>2 DEF Shape

\* The socket thread changes the state of one slot, keeps its id and does
\* not touch the state of a free or reserved one; it may take a command that
\* opens nothing.
LEMMA Moves ==
    ASSUME SocketInv, NEW i \in Slots, NEW p, DOMAIN p = SockFields, p.id = slot[i].id,
           \/ p.type = slot[i].type
           \/ slot[i].type \notin Idle /\ p.type # "RESERVE",
           slot' = [slot EXCEPT ![i] = p],
           UNCHANGED <<claims, alloc_id, known>>,
           \/ pipe' = pipe
           \/ pipe # << >> /\ pipe' = Tail(pipe) /\ Head(pipe).c \notin Openings,
           Others', run' = "on" => run = "on",
           \A id \in Over' :
              \/ id \in Over
              \/ /\ id \in known
                 /\ slot'[HASH_ID(id)].id = id => slot'[HASH_ID(id)].type \in Idle
                 /\ \A j \in DOMAIN pipe' : pipe'[j].c \in Openings => pipe'[j].id # id
    PROVE  SocketInv'
<1>1. Shape /\ ClaimsHeld /\ OpeningsHeld /\ Ended /\ NoSlotLost
    BY DEF SocketInv
<1>2. \A k \in Slots : /\ slot'[k].id = slot[k].id
                       /\ slot[k].type \in Idle => slot'[k].type = slot[k].type
                       /\ slot[k].type \notin Idle => slot'[k].type # "RESERVE"
    BY <1>1 DEF Shape, Idle
<1>3. /\ pipe' \in Seq(Cmds)
      /\ \A j \in DOMAIN pipe' : \E k \in DOMAIN pipe : pipe'[j] = pipe[k]
      /\ \A k \in DOMAIN pipe : pipe[k].c \in Openings =>
             \E j \in DOMAIN pipe' : pipe'[j] = pipe[k]
      /\ \A j \in DOMAIN pipe', k \in DOMAIN pipe' :
             pipe'[j].c \in Openings /\ k < j => pipe'[k].id # pipe'[j].id
    <2>1. pipe \in Seq(Cmds)
        BY <1>1 DEF Shape
    <2> QED BY <1>1, <2>1, Rest
<1>4. Shape'
    <2>1. slot' = [k \in Slots |-> slot'[k]]
        BY <1>1 DEF Shape
    <2>2. ASSUME NEW k \in Slots
          PROVE  /\ DOMAIN slot'[k] = SockFields
                 /\ slot'[k].id \in Nat
                 /\ slot'[k].id # 0 => HASH_ID(slot'[k].id) = k
                 /\ slot'[k].type \notin Idle => slot'[k].id \in known'
        <3>1. DOMAIN slot'[k] = SockFields
            BY <1>1 DEF Shape
        <3> QED BY <1>1, <1>2, <3>1 DEF Shape
    <2>3. Over' \subseteq known'
        BY <1>1 DEF Shape
    <2>4. \A j \in DOMAIN pipe' : pipe'[j].id \in known'
        BY <1>1, <1>3 DEF Shape
    <2> QED BY <1>1, <1>3, <2>1, <2>2, <2>3, <2>4 DEF Shape
<1>5. ClaimsHeld'
    <2> SUFFICES ASSUME NEW w \in Workers, claims[w] # None
                 PROVE  /\ slot'[HASH_ID(claims[w].id)].type = "RESERVE"
                        /\ \A v \in Workers \ {w} : claims[v] # None =>
                               HASH_ID(claims[v].id) # HASH_ID(claims[w].id)
                        /\ \A j \in DOMAIN pipe' : pipe'[j].c \in Openings =>
                               HASH_ID(pipe'[j].id) # HASH_ID(claims[w].id)
        BY DEF ClaimsHeld
    <2> DEFINE h == HASH_ID(claims[w].id)
    <2>1. h \in Slots
        BY <1>1, IdsHash
    <2>2. /\ slot[h].type = "RESERVE"
          /\ \A v \in Workers \ {w} : claims[v] # None => HASH_ID(claims[v].id) # h
          /\ \A j \in DOMAIN pipe : pipe[j].c \in Openings => HASH_ID(pipe[j].id) # h
        BY <1>1 DEF ClaimsHeld
    <2> HIDE DEF h
    <2>3. slot'[h].type = "RESERVE"
        BY <1>2, <2>1, <2>2 DEF Idle
    <2>4. \A j \in DOMAIN pipe' : pipe'[j].c \in Openings => HASH_ID(pipe'[j].id) # h
        <3> SUFFICES ASSUME NEW j \in DOMAIN pipe', pipe'[j].c \in Openings
                     PROVE  HASH_ID(pipe'[j].id) # h
            OBVIOUS
        <3>1. PICK l \in DOMAIN pipe : pipe'[j] = pipe[l]
            BY <1>3
        <3> QED BY <2>2, <3>1
    <2> QED BY <2>2, <2>3, <2>4 DEF h
<1>6. OpeningsHeld'
    <2> SUFFICES ASSUME NEW j \in DOMAIN pipe', pipe'[j].c \in Openings
                 PROVE  /\ slot'[HASH_ID(pipe'[j].id)].type = "RESERVE"
                        /\ slot'[HASH_ID(pipe'[j].id)].id = pipe'[j].id
                        /\ \A k \in DOMAIN pipe' : k < j => pipe'[k].id # pipe'[j].id
        BY DEF OpeningsHeld
    <2>1. PICK l \in DOMAIN pipe : pipe'[j] = pipe[l]
        BY <1>3
    <2> DEFINE h == HASH_ID(pipe[l].id)
    <2>2. h \in Slots
        BY <1>1, IdsHash
    <2>3. slot[h].type = "RESERVE" /\ slot[h].id = pipe[l].id
        BY <1>1, <2>1 DEF OpeningsHeld
    <2>4. slot'[h].type = "RESERVE" /\ slot'[h].id = pipe[l].id
        BY <1>2, <2>2, <2>3 DEF Idle
    <2> QED BY <1>3, <2>1, <2>4
<1>7. Ended'
    <2> SUFFICES ASSUME NEW id \in Over'
                 PROVE  /\ slot'[HASH_ID(id)].id = id => slot'[HASH_ID(id)].type \in Idle
                        /\ \A j \in DOMAIN pipe' : pipe'[j].c \in Openings => pipe'[j].id # id
        BY DEF Ended
    <2>1. CASE id \in Over
        <3>1. HASH_ID(id) \in Slots
            BY <1>1, <2>1, IdsHash
        <3>2. /\ slot[HASH_ID(id)].id = id => slot[HASH_ID(id)].type \in Idle
              /\ \A j \in DOMAIN pipe : pipe[j].c \in Openings => pipe[j].id # id
            BY <1>1, <2>1 DEF Ended
        <3>3. slot'[HASH_ID(id)].id = id => slot'[HASH_ID(id)].type \in Idle
            <4> DEFINE h == HASH_ID(id)
            <4>1. slot[h].id = id => slot[h].type \in Idle
                BY <3>2
            <4>2. /\ slot'[h].id = slot[h].id
                  /\ slot[h].type \in Idle => slot'[h].type = slot[h].type
                BY <1>2, <3>1
            <4> HIDE DEF h
            <4>3. slot'[h].id = id => slot'[h].type \in Idle
                BY <4>1, <4>2
            <4> QED BY <4>3 DEF h
        <3>4. \A j \in DOMAIN pipe' : pipe'[j].c \in Openings => pipe'[j].id # id
            <4> SUFFICES ASSUME NEW j \in DOMAIN pipe', pipe'[j].c \in Openings
                         PROVE  pipe'[j].id # id
                OBVIOUS
            <4>1. PICK l \in DOMAIN pipe : pipe'[j] = pipe[l]
                BY <1>3
            <4> QED BY <3>2, <4>1
        <3> QED BY <3>3, <3>4
    <2>2. CASE id \notin Over
        BY <2>2
    <2> QED BY <2>1, <2>2
<1>8. NoSlotLost'
    <2> SUFFICES ASSUME run' = "on", NEW k \in Slots, slot'[k].type = "RESERVE"
                 PROVE  \/ \E w \in Workers : claims[w] # None /\ HASH_ID(claims[w].id) = k
                        \/ \E j \in DOMAIN pipe' : pipe'[j].c \in Openings /\ HASH_ID(pipe'[j].id) = k
        BY DEF NoSlotLost
    <2>1. slot[k].type = "RESERVE"
        BY <1>2 DEF Idle
    <2>2. \/ \E w \in Workers : claims[w] # None /\ HASH_ID(claims[w].id) = k
          \/ \E j \in DOMAIN pipe : pipe[j].c \in Openings /\ HASH_ID(pipe[j].id) = k
        BY <1>1, <2>1 DEF NoSlotLost
    <2> QED BY <1>3, <2>2
<1> QED BY <1>4, <1>5, <1>6, <1>7, <1>8 DEF SocketInv

-----------------------------------------------------------------------------
(* Events and budgets *)

\* What taking an event leaves of the batch.
Agains == {<< >>, <<Head(ev)>>, <<[Head(ev) EXCEPT !.read = FALSE]>>}

\* It is a batch again.
LEMMA TakenEvents ==
    ASSUME ev \in Seq(Evts), ev # << >>, NEW again \in Agains, Taken(again)
    PROVE  ev' \in Seq(Evts)
<1>1. Head(ev) \in Evts /\ Tail(ev) \in Seq(Evts)
    OBVIOUS
<1>2. [Head(ev) EXCEPT !.read = FALSE] \in Evts
    BY <1>1 DEF Evts
<1>3. << >> \in Seq(Evts) /\ <<Head(ev)>> \in Seq(Evts)
      /\ <<[Head(ev) EXCEPT !.read = FALSE]>> \in Seq(Evts)
    BY <1>1, <1>2
<1>4. again \in Seq(Evts)
    BY <1>3 DEF Agains
<1>5. again \o Tail(ev) \in Seq(Evts)
    BY <1>1, <1>4
<1> QED BY <1>5 DEF Taken

\* Every handler of an event takes it so.
LEMMA EventTakes ==
    ASSUME Event PROVE ev # << >> /\ \E again \in Agains : Taken(again)
<1> DEFINE i == Head(ev).s
           s == slot[i]
           part == IF Head(ev).write THEN <<[Head(ev) EXCEPT !.read = FALSE]>> ELSE << >>
<1>1. ev # << >>
    BY DEF Event, EventTurn
<1>2. CASE SkipEvent
    BY <1>1, <1>2 DEF SkipEvent, Agains
<1>3. CASE report_connect(i, s)
    BY <1>1, <1>3 DEF report_connect, Agains
<1>4. CASE report_accept(i, s)
    BY <1>1, <1>4 DEF report_accept, Agains
<1>5. CASE ReadEvent(i, s)
    <2>1. \/ Taken(<< >>) \/ Taken(part) \/ Taken(<<Head(ev)>>)
        BY <1>5 DEF ReadEvent, forward_message_tcp, forward_message_udp,
               ReadEnds, ReadKeeps
    <2> QED BY <1>1, <2>1 DEF Agains
<1>6. ASSUME NEW k, WriteEvent(i, s, k) PROVE Taken(<< >>)
    BY <1>6 DEF WriteEvent
<1>7. CASE WriteFails(i, s)
    BY <1>1, <1>7 DEF WriteFails, Agains
<1> QED BY <1>1, <1>2, <1>3, <1>4, <1>5, <1>6, <1>7 DEF Event, Agains

\* A batch of sp_wait.
LEMMA PollEvents ==
    ASSUME NEW batch, batch \subseteq Pollable, Poll(batch) PROVE ev' \in Seq(Evts)
<1>1. batch \subseteq Slots \cup {Pipe}
    BY DEF Pollable
<1>2. PICK order \in SetToSeqs(batch), f \in [batch -> UNION {Flags(i) : i \in batch}] :
         /\ \A i \in batch : f[i] \in Flags(i)
         /\ ev' = [j \in DOMAIN order |-> [s |-> order[j], read |-> f[order[j]][1],
                                           write |-> f[order[j]][2]]]
    BY DEF Poll
<1>3. \A i \in batch : f[i][1] \in BOOLEAN /\ f[i][2] \in BOOLEAN
    <2> SUFFICES ASSUME NEW i \in batch PROVE f[i][1] \in BOOLEAN /\ f[i][2] \in BOOLEAN
        OBVIOUS
    <2>1. f[i] = <<TRUE, FALSE>> \/ f[i] = <<FALSE, TRUE>> \/ f[i] = <<TRUE, TRUE>>
        BY <1>2 DEF Flags
    <2>2. CASE f[i] = <<TRUE, FALSE>>
        BY <2>2
    <2>3. CASE f[i] = <<FALSE, TRUE>>
        BY <2>3
    <2>4. CASE f[i] = <<TRUE, TRUE>>
        BY <2>4
    <2> QED BY <2>1, <2>2, <2>3, <2>4
<1>4. Cardinality(batch) \in Nat
    <2>1. MAX_SOCKET - 1 \in Int /\ 0 \in Int
        BY SocketAssumption
    <2>2. IsFiniteSet(Slots)
        BY <2>1, FS_Interval DEF Slots
    <2>3. IsFiniteSet(Slots \cup {Pipe})
        BY <2>2, FS_AddElement
    <2>4. IsFiniteSet(batch)
        BY <1>1, <2>3, FS_Subset
    <2> QED BY <2>4, FS_CardinalityType
<1>5. order \in [1..Cardinality(batch) -> batch]
    BY DEF SetToSeqs
<1>6. DOMAIN order = 1..Cardinality(batch) /\ \A j \in DOMAIN order : order[j] \in batch
    BY <1>5
<1>7. \A j \in 1..Cardinality(batch) :
         [s |-> order[j], read |-> f[order[j]][1], write |-> f[order[j]][2]] \in Evts
    BY <1>1, <1>3, <1>6 DEF Evts
<1> QED BY <1>2, <1>4, <1>6, <1>7

\* Batches and budgets stay what they are.
LEMMA OthersNext ==
    ASSUME Others, [Next]_vars PROVE Others'
<1> USE DEF Others
<1>1. ASSUME NEW what \in Openings \cup {"send", "close", "start"}, Spend(what)
      PROVE  left' \in [Openings \cup {"send", "close", "start"} -> Nat]
    <2>1. left[what] - 1 \in Nat
        BY <1>1 DEF Spend
    <2> QED BY <1>1, <2>1 DEF Spend
<1>2. ASSUME NEW w \in Workers, NEW c \in Openings, Reserve(w, c) PROVE Others'
    BY <1>1, <1>2 DEF Reserve, events
<1>3. ASSUME NEW w \in Workers, Request(w) PROVE Others'
    BY <1>3 DEF Request, events
<1>4. ASSUME NEW id, NEW c, Send(id, c) PROVE Others'
    BY <1>1, <1>4 DEF Send, Post, events
<1>5. ASSUME NEW id, NEW x, Close(id, x) PROVE Others'
    BY <1>1, <1>5 DEF Close, Post, events
<1>6. ASSUME NEW id, Start(id) PROVE Others'
    BY <1>1, <1>6 DEF Start, Post, events
<1>7. CASE Command
    BY <1>7 DEF Command, events
<1>8. CASE Clear
    <2>1. PICK n : ev' = ev \/ ev' = [ev EXCEPT ![n].s = Pipe]
        BY <1>8 DEF Clear
    <2>2. [ev EXCEPT ![n].s = Pipe] \in Seq(Evts)
        <3>1. ASSUME NEW e \in Evts PROVE [e EXCEPT !.s = Pipe] \in Evts
            BY DEF Evts
        <3> DEFINE g == [ev EXCEPT ![n].s = Pipe]
        <3>2. DOMAIN g = 1..Len(ev) /\ Len(ev) \in Nat
            OBVIOUS
        <3>3. \A j \in 1..Len(ev) : g[j] = IF j = n THEN [ev[j] EXCEPT !.s = Pipe] ELSE ev[j]
            OBVIOUS
        <3>4. \A j \in 1..Len(ev) : g[j] \in Evts
            BY <3>1, <3>3
        <3>5. g = [j \in 1..Len(ev) |-> g[j]]
            BY <3>2
        <3> HIDE DEF g
        <3>6. g \in Seq(Evts)
            BY <3>2, <3>4, <3>5
        <3> QED BY <3>6 DEF g
    <2>3. UNCHANGED left
        BY <1>8 DEF Clear
    <2> QED BY <2>1, <2>2, <2>3
<1>9. CASE Event
    <2>1. UNCHANGED left
        BY <1>9 DEF Event, EventTurn
    <2> QED BY <1>9, <2>1, EventTakes, TakenEvents
<1>10. ASSUME NEW batch \in SUBSET Pollable, Poll(batch) PROVE Others'
    <2>1. UNCHANGED left
        BY <1>10 DEF Poll
    <2> QED BY <1>10, <2>1, PollEvents
<1>11. CASE UNCHANGED vars
    BY <1>11 DEF vars
<1> QED BY <1>2, <1>3, <1>4, <1>5, <1>6, <1>7, <1>8, <1>9, <1>10, <1>11 DEF Next

-----------------------------------------------------------------------------
(* Worker threads *)

\* A free id is new and its slot is free.
LEMMA FreeId ==
    ASSUME Shape, NEW id \in FreeIds
    PROVE  /\ id \in Nat \ {0} /\ id > alloc_id /\ HASH_ID(id) \in Slots
           /\ slot[HASH_ID(id)].type = "INVALID"
           /\ id \notin known /\ alloc_id \in Nat
<1>1. alloc_id \in Nat /\ known \subseteq 1..alloc_id /\ MAX_SOCKET \in Nat
    BY SocketAssumption DEF Shape
<1>2. id \in alloc_id + 1 .. alloc_id + MAX_SOCKET /\ slot[HASH_ID(id)].type = "INVALID"
    BY DEF FreeIds
<1>3. id \in Nat \ {0} /\ id > alloc_id
    BY <1>1, <1>2
<1> QED BY <1>1, <1>2, <1>3, HashSlot

\* More ids passed over.
LEMMA IdsPassed ==
    ASSUME SocketInv, Others', alloc_id' \in Nat, alloc_id' >= alloc_id,
           UNCHANGED <<slot, claims, known, pipe, result, closed>>,
           run' = "on" => run = "on"
    PROVE  SocketInv'
<1>1. Shape /\ ClaimsHeld /\ OpeningsHeld /\ Ended /\ NoSlotLost
    BY DEF SocketInv
<1>2. 1..alloc_id \subseteq 1..alloc_id'
    BY <1>1 DEF Shape
<1>3. Over' = Over
    BY DEF Over
<1>4. Shape'
    BY <1>1, <1>2, <1>3 DEF Shape
<1>5. ClaimsHeld' /\ OpeningsHeld'
    BY <1>1 DEF ClaimsHeld, OpeningsHeld
<1>6. Ended'
    BY <1>1, <1>3 DEF Ended
<1>7. NoSlotLost'
    BY <1>1 DEF NoSlotLost
<1> QED BY <1>4, <1>5, <1>6, <1>7 DEF SocketInv

\* The compare-and-swap of reserve_id.
LEMMA ReserveStep ==
    ASSUME SocketInv, Others', NEW w \in Workers, NEW c \in Openings, Reserve(w, c)
    PROVE  SocketInv'
<1>1. Shape /\ ClaimsHeld /\ OpeningsHeld /\ Ended /\ NoSlotLost
    BY DEF SocketInv
<1>2. CASE FreeIds = {} /\ alloc_id' = alloc_id + MAX_SOCKET /\ UNCHANGED <<slot, claims>>
    <2>1. alloc_id' \in Nat /\ alloc_id' >= alloc_id
        BY <1>1, <1>2, SocketAssumption DEF Shape
    <2>2. UNCHANGED <<slot, claims, known, pipe, result, closed, run>>
        BY <1>2 DEF Reserve, reports
    <2> QED BY <2>1, <2>2, IdsPassed
<1>3. ASSUME NEW id \in FreeIds,
             alloc_id' = id,
             slot' = [slot EXCEPT ![HASH_ID(id)].type = "RESERVE"],
             claims' = [claims EXCEPT ![w] = [c |-> c, id |-> id]]
      PROVE  SocketInv'
    <2> DEFINE h == HASH_ID(id)
    <2>1. /\ id \in Nat \ {0} /\ id > alloc_id /\ h \in Slots
          /\ slot[h].type = "INVALID" /\ id \notin known /\ alloc_id \in Nat
        BY <1>1, FreeId
    <2>2. UNCHANGED <<known, pipe, result, closed, run>> /\ Over' = Over
          /\ claims[w] = None
        BY DEF Reserve, reports, Over
    <2>3. [c |-> c, id |-> id] # None
        BY <2>1 DEF None
    <2> HIDE DEF h
    <2>4. slot' = [slot EXCEPT ![h] = [slot[h] EXCEPT !.type = "RESERVE"]]
        BY <1>3 DEF h
    <2>5. \A k \in Slots : k # h => slot'[k] = slot[k]
        BY <1>1, <2>4 DEF Shape
    <2>6. slot'[h].type = "RESERVE" /\ slot'[h].id = slot[h].id /\ DOMAIN slot'[h] = SockFields
        BY <1>1, <2>1, <2>4 DEF Shape, SockFields
    <2>7. /\ claims'[w] = [c |-> c, id |-> id]
          /\ \A v \in Workers \ {w} : claims'[v] = claims[v]
        BY <1>1, <1>3 DEF Shape
    <2>8. Shape'
        <3>1. slot' = [k \in Slots |-> slot'[k]]
            BY <1>1, <2>4 DEF Shape
        <3>2. ASSUME NEW k \in Slots
              PROVE  /\ DOMAIN slot'[k] = SockFields
                     /\ slot'[k].id \in Nat
                     /\ slot'[k].id # 0 => HASH_ID(slot'[k].id) = k
                     /\ slot'[k].type \notin Idle => slot'[k].id \in known'
            BY <1>1, <2>2, <2>5, <2>6 DEF Shape, Idle
        <3>3. alloc_id' \in Nat /\ known' \subseteq 1..alloc_id'
            BY <1>1, <1>3, <2>1, <2>2 DEF Shape
        <3>4. claims' = [v \in Workers |-> claims'[v]]
            BY <1>1, <1>3 DEF Shape
        <3>5. ASSUME NEW v \in Workers, claims'[v] # None
              PROVE  claims'[v].c \in Openings /\ claims'[v].id \in (1..alloc_id') \ known'
            <4>1. CASE v = w
                BY <1>3, <2>1, <2>2, <2>7, <4>1
            <4>2. CASE v # w
                <5>1. claims'[v] = claims[v]
                    BY <2>7, <4>2
                <5>2. claims[v].c \in Openings /\ claims[v].id \in (1..alloc_id) \ known
                    BY <1>1, <3>5, <5>1 DEF Shape
                <5>3. 1..alloc_id \subseteq 1..alloc_id'
                    BY <1>3, <2>1
                <5> QED BY <2>2, <5>1, <5>2, <5>3
            <4> QED BY <4>1, <4>2
        <3>6. Over' \subseteq known' /\ pipe' \in Seq(Cmds) /\ \A j \in DOMAIN pipe' : pipe'[j].id \in known'
            BY <1>1, <2>2 DEF Shape
        <3> QED BY <3>1, <3>2, <3>3, <3>4, <3>5, <3>6 DEF Shape
    <2>9. \A v \in Workers : claims[v] # None => HASH_ID(claims[v].id) # h
        <3> SUFFICES ASSUME NEW v \in Workers, claims[v] # None PROVE HASH_ID(claims[v].id) # h
            OBVIOUS
        <3>1. slot[HASH_ID(claims[v].id)].type = "RESERVE"
            BY <1>1 DEF ClaimsHeld
        <3> QED BY <2>1, <3>1
    <2>10. \A j \in DOMAIN pipe : pipe[j].c \in Openings => HASH_ID(pipe[j].id) # h
        <3> SUFFICES ASSUME NEW j \in DOMAIN pipe, pipe[j].c \in Openings PROVE HASH_ID(pipe[j].id) # h
            OBVIOUS
        <3>1. slot[HASH_ID(pipe[j].id)].type = "RESERVE"
            BY <1>1 DEF OpeningsHeld
        <3> QED BY <2>1, <3>1
    <2>11. ClaimsHeld'
        <3> SUFFICES ASSUME NEW v \in Workers, claims'[v] # None
                     PROVE  /\ slot'[HASH_ID(claims'[v].id)].type = "RESERVE"
                            /\ \A u \in Workers \ {v} : claims'[u] # None =>
                                  HASH_ID(claims'[u].id) # HASH_ID(claims'[v].id)
                            /\ \A j \in DOMAIN pipe : pipe[j].c \in Openings =>
                                  HASH_ID(pipe[j].id) # HASH_ID(claims'[v].id)
            BY <2>2 DEF ClaimsHeld
        <3>1. CASE v = w
            <4>1. HASH_ID(claims'[v].id) = h
                BY <2>7, <3>1 DEF h
            <4> QED BY <2>6, <2>7, <2>9, <2>10, <3>1, <4>1
        <3>2. CASE v # w
            <4>1. claims'[v] = claims[v] /\ claims[v] # None
                BY <2>7, <3>2
            <4> DEFINE g == HASH_ID(claims[v].id)
            <4>2. g \in Slots /\ g # h
                BY <1>1, <2>9, <4>1, IdsHash
            <4>3. /\ slot[g].type = "RESERVE"
                  /\ \A u \in Workers \ {v} : claims[u] # None => HASH_ID(claims[u].id) # g
                  /\ \A j \in DOMAIN pipe : pipe[j].c \in Openings => HASH_ID(pipe[j].id) # g
                BY <1>1, <4>1 DEF ClaimsHeld
            <4> HIDE DEF g
            <4>4. slot'[g].type = "RESERVE"
                BY <2>5, <4>2, <4>3
            <4>5. \A u \in Workers \ {v} : claims'[u] # None => HASH_ID(claims'[u].id) # g
                <5> SUFFICES ASSUME NEW u \in Workers \ {v}, claims'[u] # None
                             PROVE  HASH_ID(claims'[u].id) # g
                    OBVIOUS
                <5>1. CASE u = w
                    BY <2>7, <4>2, <5>1 DEF h
                <5>2. CASE u # w
                    BY <2>7, <4>3, <5>2
                <5> QED BY <5>1, <5>2
            <4> QED BY <4>1, <4>3, <4>4, <4>5 DEF g
        <3> QED BY <3>1, <3>2
    <2>12. OpeningsHeld'
        <3> SUFFICES ASSUME NEW j \in DOMAIN pipe, pipe[j].c \in Openings
                     PROVE  /\ slot'[HASH_ID(pipe[j].id)].type = "RESERVE"
                            /\ slot'[HASH_ID(pipe[j].id)].id = pipe[j].id
                            /\ \A k \in DOMAIN pipe : k < j => pipe[k].id # pipe[j].id
            BY <2>2 DEF OpeningsHeld
        <3>1. HASH_ID(pipe[j].id) \in Slots /\ HASH_ID(pipe[j].id) # h
            BY <1>1, <2>10, IdsHash
        <3>2. slot'[HASH_ID(pipe[j].id)] = slot[HASH_ID(pipe[j].id)]
            BY <2>5, <3>1
        <3> QED BY <1>1, <3>2 DEF OpeningsHeld
    <2>13. Ended'
        <3> SUFFICES ASSUME NEW o \in Over
                     PROVE  /\ slot'[HASH_ID(o)].id = o => slot'[HASH_ID(o)].type \in Idle
                            /\ \A j \in DOMAIN pipe : pipe[j].c \in Openings => pipe[j].id # o
            BY <2>2 DEF Ended
        <3>1. HASH_ID(o) \in Slots
            BY <1>1, IdsHash
        <3>2. slot'[HASH_ID(o)].id = o => slot'[HASH_ID(o)].type \in Idle
            <4>1. CASE HASH_ID(o) = h
                BY <2>6, <4>1 DEF Idle
            <4>2. CASE HASH_ID(o) # h
                BY <1>1, <2>5, <3>1, <4>2 DEF Ended
            <4> QED BY <4>1, <4>2
        <3> QED BY <1>1, <3>2 DEF Ended
    <2>14. NoSlotLost'
        <3> SUFFICES ASSUME run = "on", NEW k \in Slots, slot'[k].type = "RESERVE"
                     PROVE  \/ \E v \in Workers : claims'[v] # None /\ HASH_ID(claims'[v].id) = k
                            \/ \E j \in DOMAIN pipe : pipe[j].c \in Openings /\ HASH_ID(pipe[j].id) = k
            BY <2>2 DEF NoSlotLost
        <3>1. CASE k = h
            BY <2>3, <2>7, <3>1 DEF h
        <3>2. CASE k # h
            <4>1. slot[k].type = "RESERVE"
                BY <2>5, <3>2
            <4>2. \/ \E v \in Workers : claims[v] # None /\ HASH_ID(claims[v].id) = k
                  \/ \E j \in DOMAIN pipe : pipe[j].c \in Openings /\ HASH_ID(pipe[j].id) = k
                BY <1>1, <4>1 DEF NoSlotLost
            <4>3. \A v \in Workers : claims[v] # None => claims'[v] = claims[v]
                BY <2>2, <2>7
            <4> QED BY <4>2, <4>3
        <3> QED BY <3>1, <3>2
    <2> QED BY <2>8, <2>11, <2>12, <2>13, <2>14 DEF SocketInv
<1> QED BY <1>2, <1>3 DEF Reserve

\* The id is stored and the command sent: the slot passes from the worker to
\* the command.
LEMMA RequestStep ==
    ASSUME SocketInv, Others', NEW w \in Workers, Request(w) PROVE SocketInv'
<1>1. Shape /\ ClaimsHeld /\ OpeningsHeld /\ Ended /\ NoSlotLost
    BY DEF SocketInv
<1> DEFINE r == claims[w]
           h == HASH_ID(r.id)
           cmd == [c |-> r.c, id |-> r.id, x |-> 0]
<1>2. /\ r # None /\ known' = known \cup {r.id} /\ claims' = [claims EXCEPT ![w] = None]
      /\ slot' = [slot EXCEPT ![h].id = r.id] /\ pipe' = Append(pipe, cmd)
      /\ UNCHANGED <<alloc_id, result, closed, run>> /\ Over' = Over
    BY DEF Request, Stored, reports, Over
<1>3. /\ r.c \in Openings /\ r.id \in (1..alloc_id) \ known /\ r.id \in Nat \ {0} /\ h \in Slots
    BY <1>1, <1>2, IdsHash DEF Shape
<1>4. /\ slot[h].type = "RESERVE"
      /\ \A v \in Workers \ {w} : claims[v] # None => HASH_ID(claims[v].id) # h
      /\ \A j \in DOMAIN pipe : pipe[j].c \in Openings => HASH_ID(pipe[j].id) # h
    BY <1>1, <1>2 DEF ClaimsHeld
<1>5. slot' = [slot EXCEPT ![h] = [slot[h] EXCEPT !.id = r.id]]
    BY <1>2
<1>6. cmd \in Cmds /\ cmd.id = r.id /\ cmd.c \in Openings
    BY <1>3 DEF Cmds
<1> HIDE DEF h
<1>7. \A k \in Slots : k # h => slot'[k] = slot[k]
    BY <1>1, <1>5 DEF Shape
<1>8. slot'[h].type = "RESERVE" /\ slot'[h].id = r.id /\ DOMAIN slot'[h] = SockFields
    BY <1>1, <1>3, <1>4, <1>5 DEF Shape, SockFields
<1>9. claims'[w] = None /\ \A v \in Workers \ {w} : claims'[v] = claims[v]
    BY <1>1, <1>2 DEF Shape
<1>10. /\ pipe' \in Seq(Cmds)
       /\ \E l \in DOMAIN pipe' :
                /\ pipe'[l] = cmd /\ l \notin DOMAIN pipe /\ l \in Nat
                /\ \A j \in DOMAIN pipe' : (j \in DOMAIN pipe \/ j = l) /\ j \in Nat /\ j <= l
       /\ \A j \in DOMAIN pipe : j \in DOMAIN pipe' /\ pipe'[j] = pipe[j]
    <2>1. pipe \in Seq(Cmds)
        BY <1>1 DEF Shape
    <2> HIDE DEF cmd
    <2> QED BY <1>2, <1>6, <2>1, Pushed
<1> HIDE DEF cmd
<1>11. PICK l \in DOMAIN pipe' :
          /\ pipe'[l] = cmd /\ l \notin DOMAIN pipe /\ l \in Nat
          /\ \A j \in DOMAIN pipe' : (j \in DOMAIN pipe \/ j = l) /\ j \in Nat /\ j <= l
    BY <1>10
<1>12. HASH_ID(cmd.id) = h
    BY <1>6 DEF h
<1>13. \A j \in DOMAIN pipe : pipe[j].id \in known /\ pipe[j].id # cmd.id
                              /\ HASH_ID(pipe[j].id) \in Slots
    BY <1>1, <1>3, <1>6, IdsHash DEF Shape
<1>14. Shape'
    <2>1. slot' = [k \in Slots |-> slot'[k]]
        BY <1>1, <1>5 DEF Shape
    <2>2. ASSUME NEW k \in Slots
          PROVE  /\ DOMAIN slot'[k] = SockFields
                 /\ slot'[k].id \in Nat
                 /\ slot'[k].id # 0 => HASH_ID(slot'[k].id) = k
                 /\ slot'[k].type \notin Idle => slot'[k].id \in known'
        <3>1. CASE k = h
            BY <1>2, <1>3, <1>8, <3>1 DEF h, Idle
        <3>2. CASE k # h
            BY <1>1, <1>2, <1>7, <3>2 DEF Shape
        <3> QED BY <3>1, <3>2
    <2>3. alloc_id' \in Nat /\ known' \subseteq 1..alloc_id' /\ Over' \subseteq known'
        BY <1>1, <1>2, <1>3 DEF Shape
    <2>4. claims' = [v \in Workers |-> claims'[v]]
        BY <1>1, <1>2 DEF Shape
    <2>5. ASSUME NEW v \in Workers, claims'[v] # None
          PROVE  claims'[v].c \in Openings /\ claims'[v].id \in (1..alloc_id') \ known'
        <3>1. v # w /\ claims'[v] = claims[v]
            BY <1>9, <2>5
        <3>2. claims[v].c \in Openings /\ claims[v].id \in (1..alloc_id) \ known
            BY <1>1, <2>5, <3>1 DEF Shape
        <3>3. claims[v].id # r.id
            BY <1>4, <2>5, <3>1 DEF h
        <3> QED BY <1>2, <3>1, <3>2, <3>3
    <2>6. ASSUME NEW j \in DOMAIN pipe' PROVE pipe'[j].id \in known'
        BY <1>2, <1>6, <1>10, <1>11, <1>13
    <2> QED BY <1>10, <2>1, <2>2, <2>3, <2>4, <2>5, <2>6 DEF Shape
<1>15. ClaimsHeld'
    <2> SUFFICES ASSUME NEW v \in Workers, claims'[v] # None
                 PROVE  /\ slot'[HASH_ID(claims'[v].id)].type = "RESERVE"
                        /\ \A u \in Workers \ {v} : claims'[u] # None =>
                              HASH_ID(claims'[u].id) # HASH_ID(claims'[v].id)
                        /\ \A j \in DOMAIN pipe' : pipe'[j].c \in Openings =>
                              HASH_ID(pipe'[j].id) # HASH_ID(claims'[v].id)
        BY DEF ClaimsHeld
    <2>1. v # w /\ claims'[v] = claims[v] /\ claims[v] # None
        BY <1>9
    <2> DEFINE f == HASH_ID(claims[v].id)
    <2>2. f \in Slots /\ f # h
        BY <1>1, <1>4, <2>1, IdsHash
    <2>3. /\ slot[f].type = "RESERVE"
          /\ \A u \in Workers \ {v} : claims[u] # None => HASH_ID(claims[u].id) # f
          /\ \A j \in DOMAIN pipe : pipe[j].c \in Openings => HASH_ID(pipe[j].id) # f
        BY <1>1, <2>1 DEF ClaimsHeld
    <2> HIDE DEF f
    <2>4. slot'[f].type = "RESERVE"
        BY <1>7, <2>2, <2>3
    <2>5. \A u \in Workers \ {v} : claims'[u] # None => HASH_ID(claims'[u].id) # f
        BY <1>9, <2>3
    <2>6. \A j \in DOMAIN pipe' : pipe'[j].c \in Openings => HASH_ID(pipe'[j].id) # f
        <3> SUFFICES ASSUME NEW j \in DOMAIN pipe', pipe'[j].c \in Openings
                     PROVE  HASH_ID(pipe'[j].id) # f
            OBVIOUS
        <3>1. CASE j = l
            BY <1>11, <1>12, <2>2, <3>1
        <3>2. CASE j \in DOMAIN pipe
            BY <1>10, <2>3, <3>2
        <3> QED BY <1>11, <3>1, <3>2
    <2> QED BY <2>1, <2>4, <2>5, <2>6 DEF f
<1>16. OpeningsHeld'
    <2> SUFFICES ASSUME NEW j \in DOMAIN pipe', pipe'[j].c \in Openings
                 PROVE  /\ slot'[HASH_ID(pipe'[j].id)].type = "RESERVE"
                        /\ slot'[HASH_ID(pipe'[j].id)].id = pipe'[j].id
                        /\ \A k \in DOMAIN pipe' : k < j => pipe'[k].id # pipe'[j].id
        BY DEF OpeningsHeld
    <2>1. CASE j = l
        <3>1. slot'[HASH_ID(pipe'[j].id)].type = "RESERVE" /\ slot'[HASH_ID(pipe'[j].id)].id = pipe'[j].id
            BY <1>6, <1>8, <1>11, <1>12, <2>1
        <3>2. ASSUME NEW k \in DOMAIN pipe', k < j PROVE pipe'[k].id # pipe'[j].id
            <4>1. k \in DOMAIN pipe
                BY <1>11, <2>1, <3>2
            <4>2. pipe'[k] = pipe[k] /\ pipe[k].id # cmd.id
                BY <1>10, <1>13, <4>1
            <4> QED BY <1>11, <2>1, <4>2
        <3> QED BY <3>1, <3>2
    <2>2. CASE j \in DOMAIN pipe
        <3>1. pipe'[j] = pipe[j] /\ pipe[j].c \in Openings
            BY <1>10, <2>2
        <3>2. /\ slot[HASH_ID(pipe[j].id)].type = "RESERVE"
              /\ slot[HASH_ID(pipe[j].id)].id = pipe[j].id
              /\ \A k \in DOMAIN pipe : k < j => pipe[k].id # pipe[j].id
            BY <1>1, <2>2, <3>1 DEF OpeningsHeld
        <3>3. slot'[HASH_ID(pipe[j].id)] = slot[HASH_ID(pipe[j].id)]
            BY <1>4, <1>7, <1>13, <2>2, <3>1
        <3>4. ASSUME NEW k \in DOMAIN pipe', k < j PROVE pipe'[k].id # pipe[j].id
            <4>1. CASE k = l
                BY <1>11, <1>13, <2>2, <4>1
            <4>2. CASE k \in DOMAIN pipe
                BY <1>10, <3>2, <3>4, <4>2
            <4> QED BY <1>11, <4>1, <4>2
        <3> QED BY <3>1, <3>2, <3>3, <3>4
    <2> QED BY <1>11, <2>1, <2>2
<1>17. Ended'
    <2> SUFFICES ASSUME NEW o \in Over
                 PROVE  /\ slot'[HASH_ID(o)].id = o => slot'[HASH_ID(o)].type \in Idle
                        /\ \A j \in DOMAIN pipe' : pipe'[j].c \in Openings => pipe'[j].id # o
        BY <1>2 DEF Ended
    <2>1. HASH_ID(o) \in Slots /\ o # r.id
        BY <1>1, <1>3, IdsHash
    <2>2. slot'[HASH_ID(o)].id = o => slot'[HASH_ID(o)].type \in Idle
        <3>1. CASE HASH_ID(o) = h
            BY <1>8, <2>1, <3>1
        <3>2. CASE HASH_ID(o) # h
            BY <1>1, <1>7, <2>1, <3>2 DEF Ended
        <3> QED BY <3>1, <3>2
    <2>3. ASSUME NEW j \in DOMAIN pipe', pipe'[j].c \in Openings PROVE pipe'[j].id # o
        <3>1. CASE j = l
            BY <1>6, <1>11, <2>1, <3>1
        <3>2. CASE j \in DOMAIN pipe
            BY <1>1, <1>10, <2>3, <3>2 DEF Ended
        <3> QED BY <1>11, <3>1, <3>2
    <2> QED BY <2>2, <2>3
<1>18. NoSlotLost'
    <2> SUFFICES ASSUME run = "on", NEW k \in Slots, slot'[k].type = "RESERVE"
                 PROVE  \/ \E v \in Workers : claims'[v] # None /\ HASH_ID(claims'[v].id) = k
                        \/ \E j \in DOMAIN pipe' : pipe'[j].c \in Openings /\ HASH_ID(pipe'[j].id) = k
        BY <1>2 DEF NoSlotLost
    <2>1. CASE k = h
        BY <1>6, <1>11, <1>12, <2>1
    <2>2. CASE k # h
        <3>1. slot[k].type = "RESERVE"
            BY <1>7, <2>2
        <3>2. \/ \E v \in Workers : claims[v] # None /\ HASH_ID(claims[v].id) = k
              \/ \E j \in DOMAIN pipe : pipe[j].c \in Openings /\ HASH_ID(pipe[j].id) = k
            BY <1>1, <3>1 DEF NoSlotLost
        <3>3. \A v \in Workers : claims[v] # None /\ HASH_ID(claims[v].id) = k => claims'[v] = claims[v]
            BY <1>9, <2>2 DEF h
        <3> QED BY <1>10, <3>2, <3>3
    <2> QED BY <2>1, <2>2
<1> QED BY <1>14, <1>15, <1>16, <1>17, <1>18 DEF SocketInv

\* A command that opens nothing is sent.
LEMMA PostStep ==
    ASSUME SocketInv, Others', NEW cmd \in Cmds, cmd.id \in known, cmd.c \notin Openings,
           pipe' = Append(pipe, cmd),
           UNCHANGED <<slot, alloc_id, claims, known, result, run, closed>>
    PROVE  SocketInv'
<1>1. Shape /\ ClaimsHeld /\ OpeningsHeld /\ Ended /\ NoSlotLost
    BY DEF SocketInv
<1>2. /\ pipe' \in Seq(Cmds)
      /\ \E l \in DOMAIN pipe' :
                /\ pipe'[l] = cmd /\ l \notin DOMAIN pipe /\ l \in Nat
                /\ \A j \in DOMAIN pipe' : (j \in DOMAIN pipe \/ j = l) /\ j \in Nat /\ j <= l
      /\ \A j \in DOMAIN pipe : j \in DOMAIN pipe' /\ pipe'[j] = pipe[j]
    BY <1>1, Pushed DEF Shape
<1>3. PICK l \in DOMAIN pipe' :
          /\ pipe'[l] = cmd /\ l \notin DOMAIN pipe /\ l \in Nat
          /\ \A j \in DOMAIN pipe' : (j \in DOMAIN pipe \/ j = l) /\ j \in Nat /\ j <= l
    BY <1>2
<1>4. \A j \in DOMAIN pipe' : pipe'[j].c \in Openings => j \in DOMAIN pipe /\ pipe'[j] = pipe[j]
    BY <1>2, <1>3
<1>5. Over' = Over
    BY DEF Over
<1>6. Shape'
    <2>1. \A j \in DOMAIN pipe' : pipe'[j].id \in known'
        BY <1>1, <1>2, <1>3 DEF Shape
    <2> QED BY <1>1, <1>2, <1>5, <2>1 DEF Shape
<1>7. ClaimsHeld'
    BY <1>1, <1>4 DEF ClaimsHeld
<1>8. OpeningsHeld'
    <2> SUFFICES ASSUME NEW j \in DOMAIN pipe', pipe'[j].c \in Openings
                 PROVE  /\ slot[HASH_ID(pipe'[j].id)].type = "RESERVE"
                        /\ slot[HASH_ID(pipe'[j].id)].id = pipe'[j].id
                        /\ \A k \in DOMAIN pipe' : k < j => pipe'[k].id # pipe'[j].id
        BY DEF OpeningsHeld
    <2>1. j \in DOMAIN pipe /\ pipe'[j] = pipe[j]
        BY <1>4
    <2>2. ASSUME NEW k \in DOMAIN pipe', k < j PROVE pipe'[k].id # pipe[j].id
        <3>1. k \in DOMAIN pipe
            BY <1>3, <2>2
        <3> QED BY <1>1, <1>2, <2>1, <2>2, <3>1 DEF OpeningsHeld
    <2> QED BY <1>1, <2>1, <2>2 DEF OpeningsHeld
<1>9. Ended'
    BY <1>1, <1>4, <1>5 DEF Ended
<1>10. NoSlotLost'
    BY <1>1, <1>2 DEF NoSlotLost
<1> QED BY <1>6, <1>7, <1>8, <1>9, <1>10 DEF SocketInv

-----------------------------------------------------------------------------
(* The socket thread *)

\* The command a slot was reserved for uses it or frees it.
LEMMA Opens ==
    ASSUME SocketInv, Others', pipe # << >>, NEW r, r = Head(pipe), r.c \in Openings,
           NEW p, DOMAIN p = SockFields, p.id = slot[HASH_ID(r.id)].id, p.type # "RESERVE",
           slot' = [slot EXCEPT ![HASH_ID(r.id)] = p], pipe' = Tail(pipe),
           UNCHANGED <<claims, alloc_id, known, closed>>,
           run' = "on" => run = "on",
           result = 0, result' \in {0, r.id}, result' = r.id => p.type = "INVALID"
    PROVE  SocketInv'
<1> DEFINE h == HASH_ID(r.id)
<1>1. Shape /\ ClaimsHeld /\ OpeningsHeld /\ Ended /\ NoSlotLost /\ pipe \in Seq(Cmds)
    BY DEF SocketInv, Shape
<1>2. /\ pipe' \in Seq(Cmds)
      /\ 1 \in DOMAIN pipe /\ r = pipe[1]
      /\ \A j \in DOMAIN pipe' : /\ j \in Nat /\ j + 1 \in DOMAIN pipe
                                 /\ pipe'[j] = pipe[j + 1] /\ j + 1 > 1
      /\ \A j \in DOMAIN pipe : j # 1 => j - 1 \in DOMAIN pipe' /\ pipe'[j - 1] = pipe[j]
    BY <1>1, Popped
<1>3. slot[h].type = "RESERVE" /\ slot[h].id = r.id
    BY <1>1, <1>2 DEF OpeningsHeld
<1>4. r.id \in known /\ r.id \in Nat \ {0} /\ h \in Slots
    BY <1>1, <1>2, IdsHash
<1>5. ASSUME NEW j \in DOMAIN pipe', pipe'[j].c \in Openings
      PROVE  HASH_ID(pipe'[j].id) # h /\ pipe'[j].id # r.id /\ HASH_ID(pipe'[j].id) \in Slots
    <2>1. j + 1 \in DOMAIN pipe /\ pipe'[j] = pipe[j + 1] /\ 1 < j + 1
        BY <1>2
    <2>2. pipe[1].id # pipe[j + 1].id
        BY <1>1, <1>2, <1>5, <2>1 DEF OpeningsHeld
    <2>3. slot[HASH_ID(pipe[j + 1].id)].id = pipe[j + 1].id /\ HASH_ID(pipe[j + 1].id) \in Slots
        BY <1>1, <1>5, <2>1, IdsHash DEF OpeningsHeld
    <2> QED BY <1>2, <1>3, <2>1, <2>2, <2>3
<1>6. \A w \in Workers : claims[w] # None => HASH_ID(claims[w].id) # h
    BY <1>1, <1>2 DEF ClaimsHeld
<1>7. /\ \A j \in DOMAIN pipe' : \E k \in DOMAIN pipe : pipe'[j] = pipe[k]
      /\ \A k \in DOMAIN pipe : (\E j \in DOMAIN pipe' : pipe'[j] = pipe[k]) \/ pipe[k] = r
      /\ \A j \in DOMAIN pipe', k \in DOMAIN pipe' :
             pipe'[j].c \in Openings /\ k < j => pipe'[k].id # pipe'[j].id
    BY <1>1, Rest
<1> HIDE DEF h
<1>8. \A k \in Slots : k # h => slot'[k] = slot[k]
    BY <1>1 DEF Shape, h
<1>9. slot'[h] = p
    BY <1>1, <1>4 DEF Shape, h
<1>10. p.id = r.id
    BY <1>3 DEF h
<1>11. Shape'
    <2>1. slot' = [k \in Slots |-> slot'[k]]
        BY <1>1 DEF Shape
    <2>2. ASSUME NEW k \in Slots
          PROVE  /\ DOMAIN slot'[k] = SockFields
                 /\ slot'[k].id \in Nat
                 /\ slot'[k].id # 0 => HASH_ID(slot'[k].id) = k
                 /\ slot'[k].type \notin Idle => slot'[k].id \in known'
        <3>1. CASE k = h
            BY <1>4, <1>9, <1>10, <3>1 DEF h
        <3>2. CASE k # h
            BY <1>1, <1>8, <3>2 DEF Shape
        <3> QED BY <3>1, <3>2
    <2>3. Over' \subseteq known'
        BY <1>1, <1>4 DEF Shape, Over
    <2>4. \A j \in DOMAIN pipe' : pipe'[j].id \in known'
        BY <1>1, <1>7 DEF Shape
    <2> QED BY <1>1, <1>2, <2>1, <2>2, <2>3, <2>4 DEF Shape
<1>12. ClaimsHeld'
    <2> SUFFICES ASSUME NEW w \in Workers, claims[w] # None
                 PROVE  /\ slot'[HASH_ID(claims[w].id)].type = "RESERVE"
                        /\ \A v \in Workers \ {w} : claims[v] # None =>
                               HASH_ID(claims[v].id) # HASH_ID(claims[w].id)
                        /\ \A j \in DOMAIN pipe' : pipe'[j].c \in Openings =>
                               HASH_ID(pipe'[j].id) # HASH_ID(claims[w].id)
        BY DEF ClaimsHeld
    <2> DEFINE f == HASH_ID(claims[w].id)
    <2>1. f \in Slots /\ f # h
        BY <1>1, <1>6, IdsHash
    <2>2. /\ slot[f].type = "RESERVE"
          /\ \A v \in Workers \ {w} : claims[v] # None => HASH_ID(claims[v].id) # f
          /\ \A j \in DOMAIN pipe : pipe[j].c \in Openings => HASH_ID(pipe[j].id) # f
        BY <1>1 DEF ClaimsHeld
    <2> HIDE DEF f
    <2>3. slot'[f].type = "RESERVE"
        BY <1>8, <2>1, <2>2
    <2>4. ASSUME NEW j \in DOMAIN pipe', pipe'[j].c \in Openings PROVE HASH_ID(pipe'[j].id) # f
        <3>1. PICK l \in DOMAIN pipe : pipe'[j] = pipe[l]
            BY <1>7
        <3> QED BY <2>2, <2>4, <3>1
    <2> QED BY <2>2, <2>3, <2>4 DEF f
<1>13. OpeningsHeld'
    <2> SUFFICES ASSUME NEW j \in DOMAIN pipe', pipe'[j].c \in Openings
                 PROVE  /\ slot'[HASH_ID(pipe'[j].id)].type = "RESERVE"
                        /\ slot'[HASH_ID(pipe'[j].id)].id = pipe'[j].id
                        /\ \A k \in DOMAIN pipe' : k < j => pipe'[k].id # pipe'[j].id
        BY DEF OpeningsHeld
    <2>1. PICK l \in DOMAIN pipe : pipe'[j] = pipe[l]
        BY <1>7
    <2>2. slot[HASH_ID(pipe[l].id)].type = "RESERVE" /\ slot[HASH_ID(pipe[l].id)].id = pipe[l].id
        BY <1>1, <2>1 DEF OpeningsHeld
    <2>3. slot'[HASH_ID(pipe[l].id)] = slot[HASH_ID(pipe[l].id)]
        BY <1>5, <1>8, <2>1
    <2> QED BY <1>7, <2>1, <2>2, <2>3
<1>14. Ended'
    <2> SUFFICES ASSUME NEW o \in Over'
                 PROVE  /\ slot'[HASH_ID(o)].id = o => slot'[HASH_ID(o)].type \in Idle
                        /\ \A j \in DOMAIN pipe' : pipe'[j].c \in Openings => pipe'[j].id # o
        BY DEF Ended
    <2>1. CASE o = r.id /\ result' = r.id
        BY <1>5, <1>9, <2>1 DEF Idle, h
    <2>2. CASE o \in Over
        <3>1. HASH_ID(o) \in Slots
            BY <1>1, <2>2, IdsHash
        <3>2. o # r.id
            BY <1>1, <1>2, <2>2 DEF Ended
        <3>3. slot'[HASH_ID(o)].id = o => slot'[HASH_ID(o)].type \in Idle
            <4>1. CASE HASH_ID(o) = h
                BY <1>9, <1>10, <3>2, <4>1
            <4>2. CASE HASH_ID(o) # h
                BY <1>1, <1>8, <2>2, <3>1, <4>2 DEF Ended
            <4> QED BY <4>1, <4>2
        <3>4. ASSUME NEW j \in DOMAIN pipe', pipe'[j].c \in Openings PROVE pipe'[j].id # o
            <4>1. PICK l \in DOMAIN pipe : pipe'[j] = pipe[l]
                BY <1>7
            <4> QED BY <1>1, <2>2, <3>4, <4>1 DEF Ended
        <3> QED BY <3>3, <3>4
    <2>3. o \in Over \/ (o = r.id /\ result' = r.id)
        BY DEF Over
    <2> QED BY <2>1, <2>2, <2>3
<1>15. NoSlotLost'
    <2> SUFFICES ASSUME run = "on", NEW k \in Slots, slot'[k].type = "RESERVE"
                 PROVE  \/ \E w \in Workers : claims[w] # None /\ HASH_ID(claims[w].id) = k
                        \/ \E j \in DOMAIN pipe' : pipe'[j].c \in Openings /\ HASH_ID(pipe'[j].id) = k
        BY DEF NoSlotLost
    <2>1. k # h /\ slot[k].type = "RESERVE"
        BY <1>8, <1>9
    <2>2. \/ \E w \in Workers : claims[w] # None /\ HASH_ID(claims[w].id) = k
          \/ \E j \in DOMAIN pipe : pipe[j].c \in Openings /\ HASH_ID(pipe[j].id) = k
        BY <1>1, <2>1 DEF NoSlotLost
    <2>3. ASSUME NEW j \in DOMAIN pipe, pipe[j].c \in Openings, HASH_ID(pipe[j].id) = k
          PROVE  \E l \in DOMAIN pipe' : pipe'[l].c \in Openings /\ HASH_ID(pipe'[l].id) = k
        <3>1. pipe[j] # r
            BY <2>1, <2>3 DEF h
        <3>2. PICK l \in DOMAIN pipe' : pipe'[l] = pipe[j]
            BY <1>7, <3>1
        <3> QED BY <2>3, <3>2
    <2> QED BY <2>2, <2>3
<1> QED BY <1>11, <1>12, <1>13, <1>14, <1>15 DEF SocketInv

\* A failed assertion, or bytes that go astray, end everything where it is.
LEMMA Halts ==
    ASSUME SocketInv, Others', Abort \/ Stray, UNCHANGED claims,
           alloc_id' \in Nat, alloc_id' >= alloc_id,
           \/ pipe' = pipe
           \/ pipe # << >> /\ pipe' = Tail(pipe)
    PROVE  SocketInv'
<1>1. Shape /\ ClaimsHeld /\ OpeningsHeld /\ Ended
    BY DEF SocketInv
<1>2. /\ run' # "on" /\ result' = 0
      /\ UNCHANGED <<slot, known, closed>>
    BY DEF Abort, Stray, Halt, reports
<1>3. Over' \subseteq Over
    BY <1>2 DEF Over
<1>4. 1..alloc_id \subseteq 1..alloc_id'
    BY <1>1 DEF Shape
<1>5. /\ pipe' \in Seq(Cmds)
      /\ \A j \in DOMAIN pipe' : \E k \in DOMAIN pipe : pipe'[j] = pipe[k]
      /\ \A j \in DOMAIN pipe', k \in DOMAIN pipe' :
             pipe'[j].c \in Openings /\ k < j => pipe'[k].id # pipe'[j].id
    BY <1>1, Rest DEF Shape
<1>6. Shape'
    <2>1. \A j \in DOMAIN pipe' : pipe'[j].id \in known'
        BY <1>1, <1>2, <1>5 DEF Shape
    <2> QED BY <1>1, <1>2, <1>3, <1>4, <1>5, <2>1 DEF Shape
<1>7. ClaimsHeld'
    <2> SUFFICES ASSUME NEW w \in Workers, claims[w] # None
                 PROVE  /\ slot[HASH_ID(claims[w].id)].type = "RESERVE"
                        /\ \A v \in Workers \ {w} : claims[v] # None =>
                               HASH_ID(claims[v].id) # HASH_ID(claims[w].id)
                        /\ \A j \in DOMAIN pipe' : pipe'[j].c \in Openings =>
                               HASH_ID(pipe'[j].id) # HASH_ID(claims[w].id)
        BY <1>2 DEF ClaimsHeld
    <2>1. ASSUME NEW j \in DOMAIN pipe', pipe'[j].c \in Openings
          PROVE  HASH_ID(pipe'[j].id) # HASH_ID(claims[w].id)
        <3>1. PICK l \in DOMAIN pipe : pipe'[j] = pipe[l]
            BY <1>5
        <3> QED BY <1>1, <2>1, <3>1 DEF ClaimsHeld
    <2> QED BY <1>1, <2>1 DEF ClaimsHeld
<1>8. OpeningsHeld'
    <2> SUFFICES ASSUME NEW j \in DOMAIN pipe', pipe'[j].c \in Openings
                 PROVE  /\ slot[HASH_ID(pipe'[j].id)].type = "RESERVE"
                        /\ slot[HASH_ID(pipe'[j].id)].id = pipe'[j].id
                        /\ \A k \in DOMAIN pipe' : k < j => pipe'[k].id # pipe'[j].id
        BY <1>2 DEF OpeningsHeld
    <2>1. PICK l \in DOMAIN pipe : pipe'[j] = pipe[l]
        BY <1>5
    <2> QED BY <1>1, <1>5, <2>1 DEF OpeningsHeld
<1>9. Ended'
    <2> SUFFICES ASSUME NEW o \in Over
                 PROVE  /\ slot[HASH_ID(o)].id = o => slot[HASH_ID(o)].type \in Idle
                        /\ \A j \in DOMAIN pipe' : pipe'[j].c \in Openings => pipe'[j].id # o
        BY <1>2, <1>3 DEF Ended
    <2>1. ASSUME NEW j \in DOMAIN pipe', pipe'[j].c \in Openings PROVE pipe'[j].id # o
        <3>1. PICK l \in DOMAIN pipe : pipe'[j] = pipe[l]
            BY <1>5
        <3> QED BY <1>1, <2>1, <3>1 DEF Ended
    <2> QED BY <1>1, <2>1 DEF Ended
<1>10. NoSlotLost'
    BY <1>1, <1>2 DEF NoSlotLost
<1> QED BY <1>6, <1>7, <1>8, <1>9, <1>10 DEF SocketInv

\* A connection is accepted into a free slot, under a new id.
LEMMA Accepts ==
    ASSUME SocketInv, Others', NEW id \in FreeIds,
           NEW p, DOMAIN p = SockFields, p.id = id, p.type # "RESERVE",
           slot' = [slot EXCEPT ![HASH_ID(id)] = p], alloc_id' = id, known' = known \cup {id},
           UNCHANGED <<claims, pipe, result, run, closed>>
    PROVE  SocketInv'
<1> DEFINE h == HASH_ID(id)
<1>1. Shape /\ ClaimsHeld /\ OpeningsHeld /\ Ended /\ NoSlotLost
    BY DEF SocketInv
<1>2. /\ id \in Nat \ {0} /\ id > alloc_id /\ h \in Slots
      /\ slot[h].type = "INVALID" /\ id \notin known /\ alloc_id \in Nat
    BY <1>1, FreeId
<1>3. Over' = Over
    BY DEF Over
<1> HIDE DEF h
<1>4. \A k \in Slots : k # h => slot'[k] = slot[k]
    BY <1>1 DEF Shape, h
<1>5. slot'[h] = p
    BY <1>1, <1>2 DEF Shape, h
<1>6. 1..alloc_id \subseteq 1..alloc_id'
    BY <1>2
<1>7. \A w \in Workers : claims[w] # None =>
         HASH_ID(claims[w].id) # h /\ HASH_ID(claims[w].id) \in Slots /\ claims[w].id # id
    <2> SUFFICES ASSUME NEW w \in Workers, claims[w] # None
                 PROVE  HASH_ID(claims[w].id) # h /\ HASH_ID(claims[w].id) \in Slots /\ claims[w].id # id
        OBVIOUS
    <2>1. slot[HASH_ID(claims[w].id)].type = "RESERVE"
        BY <1>1 DEF ClaimsHeld
    <2>2. claims[w].id \in 1..alloc_id
        BY <1>1 DEF Shape
    <2> QED BY <1>1, <1>2, <2>1, <2>2, IdsHash
<1>8. \A j \in DOMAIN pipe : pipe[j].c \in Openings =>
         HASH_ID(pipe[j].id) # h /\ HASH_ID(pipe[j].id) \in Slots
    <2> SUFFICES ASSUME NEW j \in DOMAIN pipe, pipe[j].c \in Openings
                 PROVE  HASH_ID(pipe[j].id) # h /\ HASH_ID(pipe[j].id) \in Slots
        OBVIOUS
    <2>1. slot[HASH_ID(pipe[j].id)].type = "RESERVE"
        BY <1>1 DEF OpeningsHeld
    <2> QED BY <1>1, <1>2, <2>1, IdsHash
<1>9. Shape'
    <2>1. slot' = [k \in Slots |-> slot'[k]]
        BY <1>1 DEF Shape
    <2>2. ASSUME NEW k \in Slots
          PROVE  /\ DOMAIN slot'[k] = SockFields
                 /\ slot'[k].id \in Nat
                 /\ slot'[k].id # 0 => HASH_ID(slot'[k].id) = k
                 /\ slot'[k].type \notin Idle => slot'[k].id \in known'
        <3>1. CASE k = h
            BY <1>2, <1>5, <3>1 DEF h
        <3>2. CASE k # h
            BY <1>1, <1>4, <3>2 DEF Shape
        <3> QED BY <3>1, <3>2
    <2>3. alloc_id' \in Nat /\ known' \subseteq 1..alloc_id'
        BY <1>1, <1>2, <1>6 DEF Shape
    <2>4. ASSUME NEW w \in Workers, claims[w] # None
          PROVE  claims[w].c \in Openings /\ claims[w].id \in (1..alloc_id') \ known'
        <3>1. claims[w].c \in Openings /\ claims[w].id \in (1..alloc_id) \ known
            BY <1>1, <2>4 DEF Shape
        <3> QED BY <1>6, <1>7, <2>4, <3>1
    <2>5. Over' \subseteq known' /\ pipe' \in Seq(Cmds) /\ \A j \in DOMAIN pipe' : pipe'[j].id \in known'
        BY <1>1, <1>3 DEF Shape
    <2>6. claims' = [w \in Workers |-> claims'[w]]
        BY <1>1 DEF Shape
    <2> QED BY <2>1, <2>2, <2>3, <2>4, <2>5, <2>6 DEF Shape
<1>10. ClaimsHeld'
    <2> SUFFICES ASSUME NEW w \in Workers, claims[w] # None
                 PROVE  /\ slot'[HASH_ID(claims[w].id)].type = "RESERVE"
                        /\ \A v \in Workers \ {w} : claims[v] # None =>
                               HASH_ID(claims[v].id) # HASH_ID(claims[w].id)
                        /\ \A j \in DOMAIN pipe : pipe[j].c \in Openings =>
                               HASH_ID(pipe[j].id) # HASH_ID(claims[w].id)
        BY DEF ClaimsHeld
    <2>1. slot'[HASH_ID(claims[w].id)] = slot[HASH_ID(claims[w].id)]
        BY <1>4, <1>7
    <2> QED BY <1>1, <2>1 DEF ClaimsHeld
<1>11. OpeningsHeld'
    <2> SUFFICES ASSUME NEW j \in DOMAIN pipe, pipe[j].c \in Openings
                 PROVE  /\ slot'[HASH_ID(pipe[j].id)].type = "RESERVE"
                        /\ slot'[HASH_ID(pipe[j].id)].id = pipe[j].id
                        /\ \A k \in DOMAIN pipe : k < j => pipe[k].id # pipe[j].id
        BY DEF OpeningsHeld
    <2>1. slot'[HASH_ID(pipe[j].id)] = slot[HASH_ID(pipe[j].id)]
        BY <1>4, <1>8
    <2> QED BY <1>1, <2>1 DEF OpeningsHeld
<1>12. Ended'
    <2> SUFFICES ASSUME NEW o \in Over
                 PROVE  /\ slot'[HASH_ID(o)].id = o => slot'[HASH_ID(o)].type \in Idle
                        /\ \A j \in DOMAIN pipe : pipe[j].c \in Openings => pipe[j].id # o
        BY <1>3 DEF Ended
    <2>1. HASH_ID(o) \in Slots /\ o # id
        BY <1>1, <1>2, IdsHash
    <2>2. slot'[HASH_ID(o)].id = o => slot'[HASH_ID(o)].type \in Idle
        <3>1. CASE HASH_ID(o) = h
            BY <1>5, <2>1, <3>1
        <3>2. CASE HASH_ID(o) # h
            BY <1>1, <1>4, <2>1, <3>2 DEF Ended
        <3> QED BY <3>1, <3>2
    <2> QED BY <1>1, <2>2 DEF Ended
<1>13. NoSlotLost'
    <2> SUFFICES ASSUME run = "on", NEW k \in Slots, slot'[k].type = "RESERVE"
                 PROVE  \/ \E w \in Workers : claims[w] # None /\ HASH_ID(claims[w].id) = k
                        \/ \E j \in DOMAIN pipe : pipe[j].c \in Openings /\ HASH_ID(pipe[j].id) = k
        BY DEF NoSlotLost
    <2>1. slot[k].type = "RESERVE"
        BY <1>4, <1>5
    <2> QED BY <1>1, <2>1 DEF NoSlotLost
<1> QED BY <1>9, <1>10, <1>11, <1>12, <1>13 DEF SocketInv

\* What the parts of the handlers do to a socket: its id stays.
LEMMA Sockets ==
    ASSUME NEW s, DOMAIN s = SockFields
    PROVE  /\ DOMAIN Closed(s) = SockFields /\ Closed(s).id = s.id
              /\ Closed(s).type = "INVALID"
           /\ DOMAIN Failed(s) = SockFields /\ Failed(s).id = s.id
              /\ Failed(s).type = "INVALID"
           /\ DOMAIN WriteOn(s) = SockFields /\ WriteOn(s).id = s.id
              /\ WriteOn(s).type = s.type
           /\ \A k : DOMAIN Flushed(s, k) = SockFields /\ Flushed(s, k).id = s.id
                     /\ Flushed(s, k).type = s.type
<1>1. DOMAIN Closed(s) = SockFields /\ Closed(s).id = s.id /\ Closed(s).type = "INVALID"
    BY DEF Closed, SockFields
<1>2. DOMAIN Failed(s) = SockFields /\ Failed(s).id = s.id /\ Failed(s).type = "INVALID"
    BY DEF Failed, SockFields
<1>3. DOMAIN WriteOn(s) = SockFields /\ WriteOn(s).id = s.id /\ WriteOn(s).type = s.type
    BY DEF WriteOn, SockFields
<1>6. ASSUME NEW t, DOMAIN t = SockFields
      PROVE  DOMAIN Raised(t) = SockFields /\ Raised(t).id = t.id /\ Raised(t).type = t.type
    BY <1>6 DEF Raised, SockFields
<1>7. ASSUME NEW k
      PROVE  DOMAIN Flushed(s, k) = SockFields /\ Flushed(s, k).id = s.id
             /\ Flushed(s, k).type = s.type
    <2> DEFINE h == IF k < Len(s.high) THEN k ELSE Len(s.high)
               t == [s EXCEPT !.high = SubSeq(@, h + 1, Len(@)), !.wb_size = @ - k,
                              !.low = SubSeq(@, k - h + 1, Len(@))]
    <2>1. DOMAIN t = SockFields /\ t.id = s.id /\ t.type = s.type
        BY DEF SockFields
    <2>2. Flushed(s, k) = Raised(t)
        BY DEF Flushed
    <2> HIDE DEF t
    <2> QED BY <1>6, <2>1, <2>2
<1> QED BY <1>1, <1>2, <1>3, <1>7

\* More to send.
LEMMA AppendedSocket ==
    ASSUME NEW s, DOMAIN s = SockFields, NEW packet, NEW n, NEW list \in {"high", "low"}
    PROVE  /\ DOMAIN Appended(s, list, packet, n) = SockFields
           /\ Appended(s, list, packet, n).id = s.id
           /\ Appended(s, list, packet, n).type = s.type
<1>1. CASE list = "high"
    BY <1>1 DEF Appended, SockFields
<1>2. CASE list = "low"
    BY <1>2 DEF Appended, SockFields
<1> QED BY <1>1, <1>2

\* A socket that is neither free nor reserved has not ended.
LEMMA AliveNotOver ==
    ASSUME SocketInv, NEW i \in Slots, slot[i].type \notin Idle
    PROVE  slot[i].id \notin Over /\ HASH_ID(slot[i].id) = i
<1>1. Shape /\ Ended
    BY DEF SocketInv
<1>2. HASH_ID(slot[i].id) = i
    BY <1>1 DEF Shape
<1> QED BY <1>1, <1>2 DEF Ended

\* ctrl_cmd
LEMMA CommandStep ==
    ASSUME SocketInv, Others', Command PROVE SocketInv'
<1>1. Shape /\ OpeningsHeld /\ Ended
    BY DEF SocketInv
<1> DEFINE r == Head(pipe)
           h == HASH_ID(r.id)
           s == slot[h]
<1>2. /\ result = 0 /\ pipe # << >> /\ pipe' = Tail(pipe)
      /\ UNCHANGED <<alloc_id, claims>>
    BY DEF Command
<1>3. /\ 1 \in DOMAIN pipe /\ r = pipe[1] /\ pipe' \in Seq(Cmds)
      /\ \A j \in DOMAIN pipe' : /\ j \in Nat /\ j + 1 \in DOMAIN pipe
                                 /\ pipe'[j] = pipe[j + 1] /\ j + 1 > 1
    BY <1>1, <1>2, Popped DEF Shape
<1>4. r.id \in known /\ r.id \in Nat \ {0} /\ h \in Slots
    BY <1>1, <1>3, IdsHash
<1>5. ASSUME NEW j \in DOMAIN pipe', pipe'[j].c \in Openings PROVE pipe'[j].id # r.id
    <2>1. j + 1 \in DOMAIN pipe /\ pipe'[j] = pipe[j + 1] /\ 1 < j + 1
        BY <1>3
    <2>2. pipe[1].id # pipe[j + 1].id
        BY <1>1, <1>3, <1>5, <2>1 DEF OpeningsHeld
    <2> QED BY <1>3, <2>1, <2>2
<1>6. r.c \in Openings => r.id \notin closed
    BY <1>1, <1>3 DEF Ended, Over
<1>7. DOMAIN s = SockFields
    BY <1>1, <1>4 DEF Shape
<1>8. s.type \notin Idle => s.id \notin closed
    BY <1>4, AliveNotOver DEF Over
<1>9. slot = [slot EXCEPT ![h] = s]
    BY <1>1 DEF Shape
<1> HIDE DEF r
<1> HIDE DEF h
<1> HIDE DEF s
\* The commands that open a socket.
<1>10. ASSUME r.c \in Openings, NEW p, DOMAIN p = SockFields, p.id = s.id, p.type # "RESERVE",
              Goes(h, p), UNCHANGED <<known, closed>>,
              \/ result' = 0
              \/ result' = r.id /\ p.type = "INVALID"
       PROVE  SocketInv'
    <2>1. slot' = [slot EXCEPT ![HASH_ID(r.id)] = p] /\ run' = run
          /\ p.id = slot[HASH_ID(r.id)].id /\ r = Head(pipe)
        BY <1>10 DEF Goes, h, s, r
    <2>2. result' \in {0, r.id} /\ (result' = r.id => p.type = "INVALID")
        BY <1>4, <1>10
    <2> QED BY <1>2, <1>10, <2>1, <2>2, Opens
<1>11. Quiet => closed' = closed
    BY DEF Quiet, reports
<1>12. Reported(r.id) => closed' = closed
    BY DEF Reported
<1>13. CASE open_socket(r, s)
    <2>1. r.c \in Openings /\ known' = known
        BY <1>13 DEF open_socket, Openings
    <2>2. CASE Goes(h, NewFd(s, "CONNECTING", "TCP", TRUE)) /\ Silent /\ Quiet
        <3> DEFINE p == NewFd(s, "CONNECTING", "TCP", TRUE)
        <3>1. DOMAIN p = SockFields /\ p.id = s.id /\ p.type = "CONNECTING"
            BY <1>7 DEF NewFd, SockFields
        <3>2. Goes(h, p) /\ closed' = closed /\ result' = 0
            BY <1>1, <1>11, <2>1, <2>2 DEF Silent
        <3> HIDE DEF p
        <3> QED BY <1>10, <2>1, <3>1, <3>2
    <2>3. CASE Goes(h, NewFd(s, "CONNECTED", "TCP", FALSE)) /\ Silent /\ Reported(r.id)
        <3> DEFINE p == NewFd(s, "CONNECTED", "TCP", FALSE)
        <3>1. DOMAIN p = SockFields /\ p.id = s.id /\ p.type = "CONNECTED"
            BY <1>7 DEF NewFd, SockFields
        <3>2. Goes(h, p) /\ closed' = closed /\ result' = 0
            BY <1>6, <1>12, <2>1, <2>3 DEF Silent
        <3> HIDE DEF p
        <3> QED BY <1>10, <2>1, <3>1, <3>2
    <2>4. CASE Goes(h, Failed(s)) /\ Ends(r.id) /\ Quiet
        BY <1>1, <1>7, <1>10, <1>11, <2>1, <2>4, Sockets DEF Ends
    <2> QED BY <1>13, <2>2, <2>3, <2>4 DEF open_socket, h
<1>14. CASE listen_socket(r, s)
    <2>1. r.c \in Openings /\ known' = known /\ Goes(h, NewFd(s, "PLISTEN", "TCP", FALSE))
          /\ Silent /\ Quiet
        BY <1>14 DEF listen_socket, Openings, h
    <2> DEFINE p == NewFd(s, "PLISTEN", "TCP", FALSE)
    <2>2. DOMAIN p = SockFields /\ p.id = s.id /\ p.type = "PLISTEN"
        BY <1>7 DEF NewFd, SockFields
    <2>3. Goes(h, p) /\ closed' = closed /\ result' = 0
        BY <1>1, <1>11, <2>1 DEF Silent
    <2> HIDE DEF p
    <2> QED BY <1>10, <2>1, <2>2, <2>3
<1>15. CASE bind_socket(r, s)
    <2>1. r.c \in Openings /\ known' = known
        BY <1>15 DEF bind_socket, Openings
    <2>2. CASE Goes(h, NewFd(s, "BIND", "FD", FALSE)) /\ Silent /\ Reported(r.id)
        <3> DEFINE p == NewFd(s, "BIND", "FD", FALSE)
        <3>1. DOMAIN p = SockFields /\ p.id = s.id /\ p.type = "BIND"
            BY <1>7 DEF NewFd, SockFields
        <3>2. Goes(h, p) /\ closed' = closed /\ result' = 0
            BY <1>6, <1>12, <2>1, <2>2 DEF Silent
        <3> HIDE DEF p
        <3> QED BY <1>10, <2>1, <3>1, <3>2
    <2>3. CASE Goes(h, Failed(s)) /\ Ends(r.id) /\ Quiet
        BY <1>1, <1>7, <1>10, <1>11, <2>1, <2>3, Sockets DEF Ends
    <2> QED BY <1>15, <2>2, <2>3 DEF bind_socket, h
<1>16. CASE add_udp_socket(r, s)
    <2>1. r.c \in Openings /\ known' = known /\ Silent /\ Quiet
        BY <1>16 DEF add_udp_socket, Openings
    <2>2. CASE Goes(h, NewFd(s, "CONNECTED", "UDP", FALSE))
        <3> DEFINE p == NewFd(s, "CONNECTED", "UDP", FALSE)
        <3>1. DOMAIN p = SockFields /\ p.id = s.id /\ p.type = "CONNECTED"
            BY <1>7 DEF NewFd, SockFields
        <3>2. Goes(h, p) /\ closed' = closed /\ result' = 0
            BY <1>1, <1>11, <2>1, <2>2 DEF Silent
        <3> HIDE DEF p
        <3> QED BY <1>10, <2>1, <3>1, <3>2
    <2>3. CASE Goes(h, Failed(s))
        BY <1>1, <1>7, <1>10, <1>11, <2>1, <2>3, Sockets DEF Silent
    <2> QED BY <1>16, <2>2, <2>3 DEF add_udp_socket, h
<1>17. CASE Abort \/ Stray
    <2>1. alloc_id' \in Nat /\ alloc_id' >= alloc_id
        BY <1>1, <1>2 DEF Shape
    <2> QED BY <1>2, <1>17, <2>1, Halts
\* The others.
<1>18. ASSUME r.c \notin Openings, NEW p, DOMAIN p = SockFields, p.id = s.id,
              p.type = s.type \/ (s.type \notin Idle /\ p.type # "RESERVE"),
              Goes(h, p), UNCHANGED <<known, closed>>,
              \/ result' = 0
              \/ result' = r.id /\ (p.id = r.id => p.type \in Idle)
       PROVE  SocketInv'
    <2>1. slot' = [slot EXCEPT ![h] = p] /\ run' = run
        BY <1>18 DEF Goes
    <2>2. slot'[h] = p
        BY <1>1, <1>4, <2>1 DEF Shape
    <2>3. ASSUME NEW o \in Over'
          PROVE  \/ o \in Over
                 \/ /\ o \in known
                    /\ slot'[HASH_ID(o)].id = o => slot'[HASH_ID(o)].type \in Idle
                    /\ \A j \in DOMAIN pipe' : pipe'[j].c \in Openings => pipe'[j].id # o
        <3>1. o \in Over \/ (o = r.id /\ result' = r.id)
            BY <1>18, <2>3 DEF Over
        <3>2. CASE o = r.id /\ result' = r.id
            <4>1. p.id = r.id => p.type \in Idle
                BY <1>4, <1>18, <3>2
            <4>2. slot'[HASH_ID(o)] = p
                BY <2>2, <3>2 DEF h
            <4> QED BY <1>4, <1>5, <3>2, <4>1, <4>2
        <3> QED BY <3>1, <3>2
    <2>4. p.id = slot[h].id /\ (p.type = slot[h].type \/ (slot[h].type \notin Idle /\ p.type # "RESERVE"))
          /\ Head(pipe).c \notin Openings
        BY <1>18 DEF s, r
    <2> QED BY <1>2, <1>4, <1>18, <2>1, <2>3, <2>4, Moves
<1>19. UNCHANGED <<slot, run>> => Goes(h, s)
    BY <1>9 DEF Goes
<1>20. CASE start_socket(r, s)
    <2>1. r.c \notin Openings /\ known' = known
        BY <1>20 DEF start_socket, Openings
    <2>2. CASE Stale(r, s) /\ Ends(r.id) /\ Quiet /\ UNCHANGED <<slot, run>>
        <3>1. s.id = r.id => s.type \in Idle
            BY <2>2 DEF Stale, Idle
        <3> QED BY <1>1, <1>7, <1>11, <1>18, <1>19, <2>1, <2>2, <3>1 DEF Ends
    <2>3. CASE ~Stale(r, s) /\ s.type \in {"PACCEPT", "PLISTEN"} /\ Silent /\ Reported(r.id)
               /\ Goes(h, [s EXCEPT !.type = IF @ = "PACCEPT" THEN "CONNECTED" ELSE "LISTEN"])
        <3>1. s.type \notin Idle /\ s.id = r.id
            BY <2>3 DEF Stale, Idle
        <3> DEFINE p == [s EXCEPT !.type = IF @ = "PACCEPT" THEN "CONNECTED" ELSE "LISTEN"]
        <3>2. DOMAIN p = SockFields /\ p.id = s.id /\ p.type # "RESERVE"
            BY <1>7, <2>3 DEF SockFields
        <3>3. Goes(h, p) /\ closed' = closed /\ result' = 0
            BY <1>8, <1>12, <2>3, <3>1 DEF Silent
        <3> HIDE DEF p
        <3> QED BY <1>18, <2>1, <3>1, <3>2, <3>3
    <2>4. CASE ~Stale(r, s) /\ s.type \in {"PACCEPT", "PLISTEN"}
               /\ Goes(h, Closed(s)) /\ Ends(r.id) /\ Quiet
        <3>1. s.type \notin Idle
            BY <2>4 DEF Idle
        <3>2. DOMAIN Closed(s) = SockFields /\ Closed(s).id = s.id /\ Closed(s).type = "INVALID"
            BY <1>7, Sockets
        <3>3. closed' = closed /\ result' = r.id
            BY <1>1, <1>11, <2>4 DEF Ends
        <3> QED BY <1>18, <2>1, <2>4, <3>1, <3>2, <3>3 DEF Idle
    <2>5. CASE ~Stale(r, s) /\ s.type = "CONNECTED" /\ Silent /\ Reported(r.id) /\ UNCHANGED <<slot, run>>
        <3>1. s.type \notin Idle /\ s.id = r.id
            BY <2>5 DEF Stale, Idle
        <3>2. closed' = closed /\ result' = 0
            BY <1>8, <1>12, <2>5, <3>1 DEF Silent
        <3> QED BY <1>7, <1>18, <1>19, <2>1, <2>5, <3>2
    <2>6. CASE Silent /\ Quiet /\ UNCHANGED <<slot, run>>
        BY <1>1, <1>7, <1>11, <1>18, <1>19, <2>1, <2>6 DEF Silent
    <2> QED BY <1>20, <2>2, <2>3, <2>4, <2>5, <2>6 DEF start_socket, h
<1>21. CASE send_socket(r, s)
    <2> DEFINE packet == Packet(r.x, r.c = "P")
               list == IF r.c = "P" THEN "low" ELSE "high"
               ignored == Stale(r, s) \/ s.type \in {"HALFCLOSE", "PACCEPT", "PLISTEN", "LISTEN"}
               direct == Buffered(s) = << >> /\ s.type = "CONNECTED"
               to == IF s.protocol = "UDP" THEN list ELSE "high"
    <2>1. r.c \notin Openings /\ known' = known /\ closed' = closed
        BY <1>1, <1>11, <1>21 DEF send_socket, Openings
    <2>2. list \in {"high", "low"} /\ to \in {"high", "low"}
        OBVIOUS
    <2>3. \/ Silent /\ UNCHANGED <<slot, run>>
          \/ /\ Silent
             /\ \E n \in Takes(s, packet) :
                   Goes(h, IF n = Size THEN s ELSE WriteOn(Appended(s, to, packet, n)))
          \/ direct /\ Goes(h, Closed(s)) /\ Ends(r.id)
          \/ Silent /\ Goes(h, Appended(s, list, packet, 0))
        BY <1>21 DEF send_socket, h
    <2> HIDE DEF packet, list, to
    <2>4. CASE Silent /\ UNCHANGED <<slot, run>>
        BY <1>7, <1>18, <1>19, <2>1, <2>4 DEF Silent
    <2>5. ASSUME Silent, NEW n, Goes(h, IF n = Size THEN s ELSE WriteOn(Appended(s, to, packet, n)))
          PROVE  SocketInv'
        <3> DEFINE a == Appended(s, to, packet, n)
        <3>1. DOMAIN a = SockFields /\ a.id = s.id /\ a.type = s.type
            BY <1>7, <2>2, AppendedSocket
        <3> HIDE DEF a
        <3>2. DOMAIN WriteOn(a) = SockFields /\ WriteOn(a).id = s.id /\ WriteOn(a).type = s.type
            BY <3>1, Sockets
        <3>3. Goes(h, s) \/ Goes(h, WriteOn(a))
            BY <2>5 DEF a
        <3> QED BY <1>7, <1>18, <2>1, <2>5, <3>2, <3>3 DEF Silent
    <2>6. CASE direct /\ Goes(h, Closed(s)) /\ Ends(r.id)
        <3>1. DOMAIN Closed(s) = SockFields /\ Closed(s).id = s.id /\ Closed(s).type = "INVALID"
            BY <1>7, Sockets
        <3>2. s.type \notin Idle
            BY <2>6 DEF Idle
        <3> QED BY <1>18, <2>1, <2>6, <3>1, <3>2 DEF Ends, Idle
    <2>7. CASE Silent /\ Goes(h, Appended(s, list, packet, 0))
        <3> DEFINE a == Appended(s, list, packet, 0)
        <3>1. DOMAIN a = SockFields /\ a.id = s.id /\ a.type = s.type
            BY <1>7, <2>2, AppendedSocket
        <3> HIDE DEF a
        <3>2. Goes(h, a)
            BY <2>7 DEF a
        <3> QED BY <1>18, <2>1, <2>7, <3>1, <3>2 DEF Silent
    <2> QED BY <2>3, <2>4, <2>5, <2>6, <2>7
<1>22. CASE close_socket(r, s)
    <2>1. r.c \notin Openings /\ known' = known
        BY <1>22 DEF close_socket, Openings
    <2>2. DOMAIN Closed(s) = SockFields /\ Closed(s).id = s.id /\ Closed(s).type = "INVALID"
        BY <1>7, Sockets
    <2>3. CASE Stale(r, s) /\ Ends(r.id) /\ UNCHANGED <<slot, run, reports, wire>>
        <3>1. s.id = r.id => s.type \in Idle
            BY <2>3 DEF Stale, Idle
        <3>2. closed' = closed
            BY <1>1, <2>3 DEF reports
        <3> QED BY <1>7, <1>18, <1>19, <2>1, <2>3, <3>1, <3>2 DEF Ends
    <2>4. CASE ~Stale(r, s) /\ s.type # "RESERVE" /\ Goes(h, Closed(s)) /\ Ends(r.id)
               /\ UNCHANGED reports
        <3>1. closed' = closed /\ s.type \notin Idle
            BY <1>1, <2>4 DEF reports, Stale, Idle
        <3> QED BY <1>18, <2>1, <2>2, <2>4, <3>1 DEF Ends, Idle
    <2>5. ASSUME NEW k, ~Stale(r, s), s.type # "RESERVE", Quiet,
                 Goes(h, [Flushed(s, k) EXCEPT !.type = "HALFCLOSE"]), Silent
          PROVE  SocketInv'
        <3> DEFINE f == Flushed(s, k)
                   p == [f EXCEPT !.type = "HALFCLOSE"]
        <3>1. DOMAIN f = SockFields /\ f.id = s.id
            BY <1>7, Sockets
        <3> HIDE DEF f
        <3>2. DOMAIN p = SockFields /\ p.id = s.id /\ p.type # "RESERVE"
            BY <3>1 DEF SockFields
        <3>3. Goes(h, p)
            BY <2>5 DEF f
        <3>4. closed' = closed /\ s.type \notin Idle
            BY <1>1, <1>11, <2>5 DEF Stale, Idle
        <3> HIDE DEF p
        <3> QED BY <1>18, <2>1, <2>5, <3>2, <3>3, <3>4 DEF Silent
    <2>6. \/ Stale(r, s) /\ Ends(r.id) /\ UNCHANGED <<slot, run, reports, wire>>
          \/ Abort \/ Stray
          \/ ~Stale(r, s) /\ s.type # "RESERVE" /\ Goes(h, Closed(s)) /\ Ends(r.id)
             /\ UNCHANGED reports
          \/ /\ ~Stale(r, s) /\ s.type # "RESERVE" /\ Quiet
             /\ \E k \in Takes(s, Buffered(s)) :
                   Goes(h, [Flushed(s, k) EXCEPT !.type = "HALFCLOSE"]) /\ Silent
        BY <1>22 DEF close_socket, h, Quiet
    <2> QED BY <1>17, <2>3, <2>4, <2>5, <2>6
<1>23. \/ open_socket(r, s) \/ listen_socket(r, s) \/ bind_socket(r, s)
       \/ add_udp_socket(r, s) \/ new_fd_asserts(r, s) \/ start_socket(r, s)
       \/ send_socket(r, s) \/ close_socket(r, s)
    BY DEF Command, r, h, s
<1> QED BY <1>13, <1>14, <1>15, <1>16, <1>17, <1>20, <1>21, <1>22, <1>23 DEF new_fd_asserts
\* The report that was held back is made.
LEMMA ClearStep ==
    ASSUME SocketInv, Others', Clear PROVE SocketInv'
<1>1. Shape
    BY DEF SocketInv
<1>2. /\ UNCHANGED <<slot, alloc_id, claims, known, pipe, run>>
      /\ result # 0 /\ result' = 0 /\ closed' = closed \cup {result}
    BY DEF Clear, EndReported
<1>3. Over' = Over
    BY <1>2 DEF Over
<1> DEFINE i == HASH_ID(0)
           p == slot[i]
<1>4. i \in Slots
    BY HashSlot
<1> HIDE DEF i
<1>5. DOMAIN p = SockFields /\ slot' = [slot EXCEPT ![i] = p]
    BY <1>1, <1>2, <1>4 DEF Shape
<1>6. p.id = slot[i].id /\ p.type = slot[i].type
    OBVIOUS
<1>7. pipe' = pipe /\ (run' = "on" => run = "on")
    BY <1>1, <1>2
<1> HIDE DEF p
<1> QED BY <1>2, <1>3, <1>4, <1>5, <1>6, <1>7, Moves

\* sp_wait
LEMMA PollStep ==
    ASSUME SocketInv, Others', NEW batch, Poll(batch) PROVE SocketInv'
<1>1. UNCHANGED <<slot, alloc_id, claims, known, pipe, result, run, closed>>
    BY DEF Poll, reports
<1>2. alloc_id' \in Nat /\ alloc_id' >= alloc_id
    BY <1>1 DEF SocketInv, Shape
<1> QED BY <1>1, <1>2, IdsPassed

\* What services ask of sockets they know.
LEMMA AskStep ==
    ASSUME SocketInv, Others', NEW id \in known,
           \/ \E c \in {"D", "P"} : Send(id, c)
           \/ \E x \in BOOLEAN : Close(id, x)
           \/ Start(id)
    PROVE  SocketInv'
<1>1. id \in Nat \ {0}
    BY IdsHash DEF SocketInv
<1>2. MaxSend - left'["send"] \in Int
    BY SocketAssumption DEF Others
<1>3. ASSUME NEW c \in {"S", "D", "P", "K"}, NEW x \in Int, Post(c, id, x) PROVE SocketInv'
    <2> DEFINE cmd == [c |-> c, id |-> id, x |-> x]
    <2>1. cmd \in Cmds /\ cmd.id \in known /\ cmd.c \notin Openings
        BY <1>1 DEF Cmds, Openings
    <2>2. pipe' = Append(pipe, cmd)
          /\ UNCHANGED <<slot, alloc_id, claims, known, result, run, closed>>
        BY <1>3 DEF Post
    <2> HIDE DEF cmd
    <2> QED BY <2>1, <2>2, PostStep
<1>4. CASE \E c \in {"D", "P"} : Send(id, c)
    BY <1>2, <1>3, <1>4 DEF Send
<1>5. CASE \E x \in BOOLEAN : Close(id, x)
    <2>1. PICK x \in BOOLEAN : Close(id, x)
        BY <1>5
    <2>2. (IF x THEN 1 ELSE 0) \in Int
        OBVIOUS
    <2> QED BY <1>3, <2>1, <2>2 DEF Close
<1>6. CASE Start(id)
    BY <1>3, <1>6 DEF Start
<1> QED BY <1>4, <1>5, <1>6

\* An event is handled.
LEMMA EventStep ==
    ASSUME SocketInv, Others', Event PROVE SocketInv'
<1>1. Shape /\ OpeningsHeld /\ Others
    BY DEF SocketInv
<1>2. result = 0 /\ ev # << >> /\ UNCHANGED <<claims, pipe>>
    BY DEF Event, EventTurn
<1>3. alloc_id \in Nat
    BY <1>1 DEF Shape
<1>4. CASE SkipEvent
    <2>1. UNCHANGED <<slot, alloc_id, known, result, run, closed>>
        BY <1>4 DEF SkipEvent, reports
    <2> QED BY <1>2, <1>3, <2>1, IdsPassed
<1> DEFINE i == Head(ev).s
           s == slot[i]
<1>5. CASE /\ Head(ev).s # Pipe
           /\ \/ report_connect(i, s) \/ report_accept(i, s) \/ ReadEvent(i, s)
              \/ \E k \in Takes(s, Buffered(s)) : WriteEvent(i, s, k)
              \/ WriteFails(i, s)
    <2>1. i \in Slots
        <3>1. Head(ev) \in Evts
            BY <1>1, <1>2 DEF Others
        <3> QED BY <1>5, <3>1 DEF Evts
    <2>2. DOMAIN s = SockFields
        BY <1>1, <2>1 DEF Shape
    <2>3. s.type \notin Idle => s.id \notin Over /\ s.id \in known /\ HASH_ID(s.id) = i
        BY <1>1, <2>1, AliveNotOver DEF Shape
    <2>4. s.type \notin Idle => \A j \in DOMAIN pipe : pipe[j].c \in Openings => pipe[j].id # s.id
        BY <1>1, <2>1, <2>3 DEF OpeningsHeld, Idle
    <2>5. Reported(s.id) => closed' = closed
        BY DEF Reported
    <2>6. Quiet => closed' = closed
        BY <1>1 DEF Quiet, reports
    <2> HIDE DEF i
    <2>7. s = slot[i]
        OBVIOUS
    <2>8. slot = [slot EXCEPT ![i] = s]
        BY <1>1 DEF Shape
    <2> HIDE DEF s
    \* The socket goes on.
    <2>9. ASSUME NEW p, DOMAIN p = SockFields, p.id = s.id,
                 p.type = s.type \/ (s.type \notin Idle /\ p.type # "RESERVE"),
                 Goes(i, p), UNCHANGED <<alloc_id, known, result, closed>>
          PROVE  SocketInv'
        <3>1. slot' = [slot EXCEPT ![i] = p] /\ run' = run /\ p.id = slot[i].id
              /\ (p.type = slot[i].type \/ (slot[i].type \notin Idle /\ p.type # "RESERVE"))
            BY <2>7, <2>9 DEF Goes
        <3>2. Over' = Over
            BY <2>9 DEF Over
        <3> QED BY <1>2, <2>1, <2>9, <3>1, <3>2, Moves
    \* The socket ends.
    <2>10. ASSUME s.type \notin Idle, Goes(i, Closed(s)), EndReported(s.id),
                  UNCHANGED <<alloc_id, known, result>>
           PROVE  SocketInv'
        <3> DEFINE p == Closed(s)
        <3>1. DOMAIN p = SockFields /\ p.id = s.id /\ p.type = "INVALID"
            BY <2>2, Sockets
        <3>2. slot' = [slot EXCEPT ![i] = p] /\ run' = run
              /\ closed' = closed \cup {s.id}
            BY <1>1, <2>10 DEF Goes, EndReported
        <3> HIDE DEF p
        <3>3. p.id = slot[i].id /\ slot[i].type \notin Idle /\ p.type # "RESERVE"
            BY <2>7, <2>10, <3>1
        <3>4. slot'[i] = p
            BY <1>1, <2>1, <3>2 DEF Shape
        <3>5. ASSUME NEW o \in Over'
              PROVE  \/ o \in Over
                     \/ /\ o \in known
                        /\ slot'[HASH_ID(o)].id = o => slot'[HASH_ID(o)].type \in Idle
                        /\ \A j \in DOMAIN pipe' : pipe'[j].c \in Openings => pipe'[j].id # o
            <4>1. o \in Over \/ o = s.id
                BY <2>10, <3>2, <3>5 DEF Over
            <4>2. CASE o = s.id
                <5>1. slot'[HASH_ID(o)] = p
                    BY <2>3, <2>10, <3>4, <4>2
                <5>2. o \in known /\ \A j \in DOMAIN pipe : pipe[j].c \in Openings => pipe[j].id # o
                    BY <2>3, <2>4, <2>10, <4>2
                <5> QED BY <1>2, <3>1, <5>1, <5>2 DEF Idle
            <4> QED BY <4>1, <4>2
        <3> QED BY <1>2, <2>1, <2>10, <3>1, <3>2, <3>3, <3>5, Moves
    <2>11. UNCHANGED <<slot, run>> => Goes(i, s)
        BY <2>8 DEF Goes
    <2>12. ASSUME Abort \/ Stray, alloc_id' = alloc_id PROVE SocketInv'
        BY <1>2, <1>3, <2>12, Halts
    <2>13. CASE report_connect(i, s)
        <3>1. s.type \notin Idle /\ UNCHANGED <<alloc_id, known, result>>
            BY <2>13 DEF report_connect, Idle
        <3>2. CASE /\ Goes(i, [s EXCEPT !.type = "CONNECTED", !.write = Buffered(s) # << >>])
                   /\ Reported(s.id)
            <4> DEFINE p == [s EXCEPT !.type = "CONNECTED", !.write = Buffered(s) # << >>]
            <4>1. DOMAIN p = SockFields /\ p.id = s.id /\ p.type = "CONNECTED"
                BY <2>2 DEF SockFields
            <4>2. Goes(i, p)
                BY <3>2
            <4>3. closed' = closed
                BY <2>5, <3>1, <3>2
            <4> HIDE DEF p
            <4> QED BY <2>9, <3>1, <4>1, <4>2, <4>3
        <3>3. CASE Goes(i, Closed(s)) /\ EndReported(s.id)
            BY <2>10, <3>1, <3>3
        <3> QED BY <2>13, <3>2, <3>3 DEF report_connect
    <2>14. CASE report_accept(i, s)
        <3>1. s.type \notin Idle /\ result' = result
            BY <2>14 DEF report_accept, Idle
        <3>2. CASE (Reported(s.id) \/ Quiet) /\ UNCHANGED <<slot, run, alloc_id, known>>
            <4>1. closed' = closed
                BY <2>5, <2>6, <3>2
            <4> QED BY <1>2, <1>3, <3>1, <3>2, <4>1, IdsPassed
        <3>3. CASE alloc_id' = alloc_id + MAX_SOCKET /\ UNCHANGED <<slot, run, known, reports>>
            <4>1. closed' = closed
                BY <3>3 DEF reports
            <4>2. alloc_id' \in Nat /\ alloc_id' >= alloc_id
                BY <1>3, <3>3, SocketAssumption
            <4> QED BY <1>2, <3>1, <3>3, <4>1, <4>2, IdsPassed
        <3>4. ASSUME NEW id \in FreeIds, alloc_id' = id,
                     \/ Abort
                     \/ /\ known' = known \cup {id} /\ Reported(s.id)
                        /\ Goes(HASH_ID(id), NewFd([slot[HASH_ID(id)] EXCEPT !.id = id],
                                                   "PACCEPT", "TCP", FALSE))
              PROVE  SocketInv'
            <4>1. id \in Nat \ {0} /\ id > alloc_id /\ HASH_ID(id) \in Slots
                BY <1>1, FreeId
            <4>2. CASE Abort
                <5>1. alloc_id' \in Nat /\ alloc_id' >= alloc_id
                    BY <1>3, <3>4, <4>1
                <5> QED BY <1>2, <4>2, <5>1, Halts
            <4>3. CASE /\ known' = known \cup {id} /\ Reported(s.id)
                       /\ Goes(HASH_ID(id), NewFd([slot[HASH_ID(id)] EXCEPT !.id = id],
                                                  "PACCEPT", "TCP", FALSE))
                <5> DEFINE q == slot[HASH_ID(id)]
                           p == NewFd([q EXCEPT !.id = id], "PACCEPT", "TCP", FALSE)
                <5>1. DOMAIN q = SockFields
                    BY <1>1, <4>1 DEF Shape
                <5>2. slot' = [slot EXCEPT ![HASH_ID(id)] = p] /\ run' = run
                    BY <4>3 DEF Goes
                <5> HIDE DEF q
                <5>3. DOMAIN p = SockFields /\ p.id = id /\ p.type = "PACCEPT"
                    BY <5>1 DEF NewFd, SockFields
                <5>4. closed' = closed
                    BY <2>5, <3>1, <4>3
                <5> HIDE DEF p
                <5>5. p.type # "RESERVE"
                    BY <5>3
                <5> QED BY <1>2, <3>1, <3>4, <4>3, <5>2, <5>3, <5>4, <5>5, Accepts
            <4> QED BY <3>4, <4>2, <4>3
        <3> QED BY <2>14, <3>2, <3>3, <3>4 DEF report_accept
    <2>15. CASE ReadEvent(i, s)
        <3>1. alloc_id' = alloc_id /\ (s.type # "RESERVE" => s.type \notin Idle)
            BY <2>15 DEF ReadEvent, Plain, Idle
        <3>2. CASE Abort
            BY <2>12, <3>1, <3>2
        <3>3. CASE s.type # "RESERVE" /\ Goes(i, Closed(s)) /\ EndReported(s.id)
                   /\ UNCHANGED <<result, known>>
            BY <2>10, <3>1, <3>3
        <3>4. CASE (Quiet \/ Reported(s.id))
                   /\ UNCHANGED <<slot, run, result, known>>
            <4>1. closed' = closed
                BY <2>5, <2>6, <3>1, <3>4
            <4> QED BY <2>2, <2>9, <2>11, <3>1, <3>4, <4>1
        <3> QED BY <2>15, <3>2, <3>3, <3>4 DEF ReadEvent, forward_message_tcp, forward_message_udp,
                   ReadEnds, ReadKeeps
    <2>16. ASSUME NEW k, WriteEvent(i, s, k) PROVE SocketInv'
        <3>1. UNCHANGED <<alloc_id, known, result>>
            BY <2>16 DEF WriteEvent
        <3>2. CASE s.type = "HALFCLOSE" /\ Goes(i, Closed(s)) /\ EndReported(s.id)
            BY <2>10, <3>1, <3>2 DEF Idle
        <3>3. CASE Goes(i, [Flushed(s, k) EXCEPT !.write = @ /\ ~Drained(s, k)]) /\ Quiet
            <4> DEFINE f == Flushed(s, k)
                       d == Drained(s, k)
                       p == [f EXCEPT !.write = @ /\ ~d]
            <4>1. DOMAIN f = SockFields /\ f.id = s.id /\ f.type = s.type
                BY <2>2, Sockets
            <4>2. Goes(i, p) /\ closed' = closed
                BY <2>6, <3>3
            <4> HIDE DEF f, d
            <4>3. DOMAIN p = SockFields /\ p.id = s.id /\ p.type = s.type
                BY <4>1 DEF SockFields
            <4> HIDE DEF p
            <4> QED BY <2>9, <3>1, <4>2, <4>3
        <3> QED BY <2>16, <3>2, <3>3 DEF WriteEvent
    <2>17. CASE WriteFails(i, s)
        <3>1. alloc_id' = alloc_id /\ (s.type # "RESERVE" => s.type \notin Idle)
            BY <2>17 DEF WriteFails, Plain, Idle
        <3>2. CASE Abort \/ Stray
            BY <2>12, <3>1, <3>2
        <3>3. CASE s.type # "RESERVE" /\ Goes(i, Closed(s)) /\ EndReported(s.id)
                   /\ UNCHANGED <<known, result>>
            BY <2>10, <3>1, <3>3
        <3> QED BY <2>17, <3>2, <3>3 DEF WriteFails
    <2>18. \/ report_connect(i, s) \/ report_accept(i, s) \/ ReadEvent(i, s)
           \/ \E k \in Takes(s, Buffered(s)) : WriteEvent(i, s, k)
           \/ WriteFails(i, s)
        BY <1>5
    <2> QED BY <2>13, <2>14, <2>15, <2>16, <2>17, <2>18
<1> QED BY <1>4, <1>5 DEF Event

-----------------------------------------------------------------------------
\* No slot is reserved and nothing is asked at first.
LEMMA InvInit ==
    ASSUME Init PROVE SocketInv
<1>1. \A i \in Slots : slot[i] = Fresh
    BY DEF Init
<1>2. DOMAIN Fresh = SockFields /\ Fresh.id = 0 /\ Fresh.type = "INVALID"
    BY DEF Fresh, SockFields
<1>3. Over = {} /\ known = {} /\ alloc_id = 0 /\ pipe = << >>
    BY DEF Init, Over
<1>4. \A w \in Workers : claims[w] = None
    BY DEF Init
<1>5. DOMAIN pipe = {} /\ pipe \in Seq(Cmds)
    BY <1>3
<1>6. Shape
    <2>1. slot = [i \in Slots |-> slot[i]] /\ claims = [w \in Workers |-> claims[w]]
        BY DEF Init
    <2>2. \A i \in Slots : DOMAIN slot[i] = SockFields /\ slot[i].id = 0 /\ slot[i].type \in Idle
        BY <1>1, <1>2 DEF Idle
    <2> QED BY <1>3, <1>4, <1>5, <2>1, <2>2 DEF Shape
<1>7. Others
    <2>1. ev \in Seq(Evts)
        BY DEF Init
    <2>2. left \in [Openings \cup {"send", "close", "start"} -> Nat]
        BY SocketAssumption DEF Init
    <2> QED BY <2>1, <2>2 DEF Others
<1>8. ClaimsHeld /\ OpeningsHeld /\ Ended
    BY <1>3, <1>4, <1>5 DEF ClaimsHeld, OpeningsHeld, Ended
<1>9. NoSlotLost
    BY <1>1, <1>2 DEF NoSlotLost
<1> QED BY <1>6, <1>7, <1>8, <1>9 DEF SocketInv

\* Every step keeps the invariant.
LEMMA InvNext ==
    ASSUME SocketInv, [Next]_vars PROVE SocketInv'
<1>1. Others'
    BY OthersNext DEF SocketInv
<1>2. CASE \E w \in Workers : Request(w) \/ \E c \in Openings : Reserve(w, c)
    BY <1>1, <1>2, RequestStep, ReserveStep
<1>3. CASE \E id \in known : \/ \E c \in {"D", "P"} : Send(id, c)
                             \/ \E x \in BOOLEAN : Close(id, x)
                             \/ Start(id)
    BY <1>1, <1>3, AskStep
<1>4. CASE Command
    BY <1>1, <1>4, CommandStep
<1>5. CASE Clear
    BY <1>1, <1>5, ClearStep
<1>6. CASE Event
    BY <1>1, <1>6, EventStep
<1>7. CASE \E batch \in (SUBSET Pollable) \ {{}} : Poll(batch)
    BY <1>1, <1>7, PollStep
<1>8. CASE UNCHANGED vars
    <2>1. UNCHANGED <<slot, alloc_id, claims, known, pipe, result, run, closed>>
        BY <1>8 DEF vars
    <2>2. alloc_id' \in Nat /\ alloc_id' >= alloc_id
        BY <2>1 DEF SocketInv, Shape
    <2> QED BY <1>1, <2>1, <2>2, IdsPassed
<1> QED BY <1>2, <1>3, <1>4, <1>5, <1>6, <1>7, <1>8 DEF Next

\* In every behaviour of the socket server, with any number of workers, slots
\* and ids: a slot that reserve_id has taken is held by the worker that will
\* send its command, or by the command in the pipe that uses or frees it.
THEOREM NoReservedSlotLost == Spec => []NoSlotLost
<1>1. Init => SocketInv
    BY InvInit
<1>2. SocketInv /\ [Next]_vars => SocketInv'
    BY InvNext
<1>3. SocketInv => NoSlotLost
    BY DEF SocketInv
<1> QED BY <1>1, <1>2, <1>3, PTL DEF Spec

\* What a command reports after the end of a socket is not under its id.
LEMMA CommandHaunts ==
    ASSUME SocketInv, Command PROVE haunted' = haunted
<1>1. Shape /\ Ended
    BY DEF SocketInv
<1> DEFINE r == Head(pipe)
           h == HASH_ID(r.id)
           s == slot[h]
<1>2. 1 \in DOMAIN pipe /\ r = pipe[1]
    BY <1>1, Popped DEF Command, Shape
<1>3. h \in Slots
    BY <1>1, <1>2, IdsHash
<1>4. r.c \in Openings => r.id \notin closed
    BY <1>1, <1>2 DEF Ended, Over
<1>5. s.type \notin Idle => s.id \notin closed
    BY <1>3, AliveNotOver DEF Over
<1> HIDE DEF r, h, s
<1>6. r.id \notin closed /\ Reported(r.id) => haunted' = haunted
    BY DEF Reported
<1>7. Quiet \/ Abort \/ Stray => haunted' = haunted
    BY DEF Quiet, Abort, Stray, Halt, reports
<1>8. CASE open_socket(r, s) \/ bind_socket(r, s)
    <2>1. r.c \in Openings /\ (Quiet \/ Reported(r.id))
        BY <1>8 DEF open_socket, bind_socket, Openings
    <2> QED BY <1>4, <1>6, <1>7, <2>1
<1>9. CASE start_socket(r, s)
    <2>1. Quiet \/ (Reported(r.id) /\ s.type \notin Idle /\ s.id = r.id)
        BY <1>9 DEF start_socket, Stale, Idle
    <2> QED BY <1>5, <1>6, <1>7, <2>1
<1>10. CASE \/ listen_socket(r, s) \/ add_udp_socket(r, s) \/ new_fd_asserts(r, s)
            \/ send_socket(r, s) \/ close_socket(r, s)
    <2>1. Quiet \/ Abort \/ Stray
        BY <1>10 DEF listen_socket, add_udp_socket, new_fd_asserts, send_socket, close_socket, Quiet
    <2> QED BY <1>7, <2>1
<1>11. \/ open_socket(r, s) \/ listen_socket(r, s) \/ bind_socket(r, s)
       \/ add_udp_socket(r, s) \/ new_fd_asserts(r, s) \/ start_socket(r, s)
       \/ send_socket(r, s) \/ close_socket(r, s)
    BY DEF Command, r, h, s
<1> QED BY <1>8, <1>9, <1>10, <1>11

\* Nor is what an event reports, unless its slot is one that a worker is just
\* reserving.
LEMMA EventHaunts ==
    ASSUME SocketInv, Event, haunted' # haunted
    PROVE  slot[Head(ev).s].type = "RESERVE" /\ Reserving(Head(ev).s)
<1>1. Shape /\ Others
    BY DEF SocketInv
<1>2. ev # << >>
    BY DEF Event, EventTurn
<1> DEFINE i == Head(ev).s
           s == slot[i]
<1>3. Quiet \/ Abort \/ Stray => haunted' = haunted
    BY DEF Quiet, Abort, Stray, Halt, reports
<1>4. ~SkipEvent
    BY DEF SkipEvent, reports
<1>5. /\ i # Pipe
      /\ \/ report_connect(i, s) \/ report_accept(i, s) \/ ReadEvent(i, s)
         \/ \E k \in Takes(s, Buffered(s)) : WriteEvent(i, s, k)
         \/ WriteFails(i, s)
    BY <1>4 DEF Event
<1>6. i \in Slots
    <2>1. Head(ev) \in Evts
        BY <1>1, <1>2 DEF Others
    <2> QED BY <1>5, <2>1 DEF Evts
<1>7. s.type \notin Idle => s.id \notin closed
    BY <1>6, AliveNotOver DEF Over
<1> HIDE DEF i, s
<1>8. EndReported(s.id) => haunted' = haunted
    BY DEF EndReported
<1>9. s.type \notin Idle /\ Reported(s.id) => haunted' = haunted
    BY <1>7 DEF Reported
<1>10. CASE report_connect(i, s)
    <2>1. s.type \notin Idle /\ (Reported(s.id) \/ EndReported(s.id))
        BY <1>10 DEF report_connect, Idle
    <2> QED BY <1>8, <1>9, <2>1
<1>11. CASE report_accept(i, s)
    <2>1. s.type \notin Idle /\ (Reported(s.id) \/ Quiet \/ Abort)
        BY <1>11 DEF report_accept, Idle, Quiet
    <2> QED BY <1>3, <1>9, <2>1
<1>12. CASE ReadEvent(i, s)
    <2>1. Plain(s) /\ (Abort \/ EndReported(s.id) \/ Quiet \/ (HasFd(i, s) /\ Reported(s.id)))
        BY <1>12 DEF ReadEvent, forward_message_tcp, forward_message_udp,
               ReadEnds, ReadKeeps
    <2>2. HasFd(i, s) /\ s.type = "RESERVE"
        BY <1>3, <1>8, <1>9, <2>1 DEF Plain, Idle
    <2> QED BY <2>2 DEF HasFd, i, s
<1>13. ASSUME NEW k, WriteEvent(i, s, k) PROVE FALSE
    <2>1. EndReported(s.id) \/ Quiet
        BY <1>13 DEF WriteEvent
    <2> QED BY <1>3, <1>8, <2>1
<1>14. CASE WriteFails(i, s)
    <2>1. Abort \/ Stray \/ EndReported(s.id)
        BY <1>14 DEF WriteFails
    <2> QED BY <1>3, <1>8, <2>1
<1> QED BY <1>5, <1>10, <1>11, <1>12, <1>13, <1>14

\* What is reported under the id of a socket whose end was reported.
LEMMA HauntsNext ==
    ASSUME SocketInv, [Next]_vars, haunted' # haunted
    PROVE  EventTurn /\ slot[Head(ev).s].type = "RESERVE" /\ Reserving(Head(ev).s)
<1>1. CASE \E w \in Workers : Request(w) \/ \E c \in Openings : Reserve(w, c)
    BY <1>1 DEF Request, Reserve, reports
<1>2. CASE \E id \in known : \/ \E c \in {"D", "P"} : Send(id, c)
                             \/ \E x \in BOOLEAN : Close(id, x)
                             \/ Start(id)
    BY <1>2 DEF Send, Close, Start, Post
<1>3. CASE Command
    BY <1>3, CommandHaunts
<1>4. CASE Clear
    BY <1>4 DEF Clear, EndReported
<1>5. CASE Event
    BY <1>5, EventHaunts DEF Event
<1>6. CASE \E batch \in (SUBSET Pollable) \ {{}} : Poll(batch)
    BY <1>6 DEF Poll, reports
<1>7. CASE UNCHANGED vars
    BY <1>7 DEF vars
<1> QED BY <1>1, <1>2, <1>3, <1>4, <1>5, <1>6, <1>7 DEF Next

\* In every behaviour of the socket server: once a service was told that a
\* socket has ended (CLOSE, or an ERROR that closes it), nothing is reported
\* under its id, neither OPEN, DATA, UDP or ACCEPT nor the ERROR of an accept
\* without descriptors, whatever late commands and events name its slot; with
\* the one exception that socket_server.c has: an event of the batch whose
\* slot a worker has reserved and not yet renamed (lines 255-257).
THEOREM NothingAfterTheEnd == Spec => ClosedForGood
<1>1. Init => SocketInv
    BY InvInit
<1>2. SocketInv /\ [Next]_vars => SocketInv'
    BY InvNext
<1>3. SocketInv /\ [Next]_vars =>
        [haunted' # haunted =>
            EventTurn /\ slot[Head(ev).s].type = "RESERVE" /\ Reserving(Head(ev).s)]_vars
    BY HauntsNext
<1> QED BY <1>1, <1>2, <1>3, PTL DEF Spec, ClosedForGood

-----------------------------------------------------------------------------
(* Packets.  Where a packet's bytes lie is told by each of them: a byte     *)
(* that is number b of its packet has the others around it.  What the peer  *)
(* got and what is buffered at high priority are together whole packets,    *)
(* and so is what is buffered at low priority, because a low packet that    *)
(* was begun is raised.  Numbers grow along each priority, for a command    *)
(* in the pipe is newer than all that was ever written or buffered.         *)

\* A byte of a packet.
Bytes == [n : Int, b : 1..Size, low : BOOLEAN]

\* Byte i of the packet of byte x.
Mate(x, i) == [x EXCEPT !.b = i]

\* The bytes around each byte of q are those of its packet.
Pieces(q) ==
    \A j \in DOMAIN q :
       /\ q[j].b <= j
       /\ \A i \in 1..Size : j - q[j].b + i <= Len(q) => q[j - q[j].b + i] = Mate(q[j], i)

\* q is whole packets.
Blocks(q) == Pieces(q) /\ (q # << >> => q[Len(q)].b = Size)

\* The byte x is of the other priority than y, or comes before it.
Precedes(x, y) == x.low = y.low => x.n < y.n \/ (x.n = y.n /\ x.b < y.b)

\* The bytes of q are in order.
Rising(q) == \A j \in DOMAIN q : \A h \in 1..j - 1 : Precedes(q[h], q[j])

\* Those of q come before those of t.
Before(q, t) == \A h \in DOMAIN q : \A j \in DOMAIN t : Precedes(q[h], t[j])

\* The packets of q have numbers less than y.
Below(q, y) == \A j \in DOMAIN q : q[j].n < y

\* Only packets of low priority.
OnlyLow(q) == \A j \in DOMAIN q : q[j].low = TRUE

\* The buffers of a socket, or what a slot without one still has of them.
Lists(s) ==
    /\ s.type \in Types /\ s.id \in Ids \cup {0}
    /\ s.high \in Seq(Bytes) /\ s.low \in Seq(Bytes)
    /\ Blocks(s.low) /\ OnlyLow(s.low)

\* The buffers of a socket whose peer got w.
Flow(s, w) ==
    /\ Blocks(w \o s.high)
    /\ Rising(w \o s.high) /\ Rising(s.low) /\ Before(w \o s.high, s.low)
    /\ s.wb_size = Len(s.high) + Len(s.low)

\* How many packets services have sent.
Sent == MaxSend - left["send"]

\* Commands that send.
Sends == {j \in DOMAIN pipe : pipe[j].c \in {"D", "P"}}

\* The numbers of the packets in the pipe, and the next one.
Coming == {pipe[j].x : j \in Sends} \cup {Sent + 1}

\* The packets in the pipe are in order.
Numbers ==
    \A j \in Sends : pipe[j].x <= Sent /\ \A h \in Sends : h < j => pipe[h].x < pipe[j].x

\* What the peers got.
Wires ==
    /\ wire \in [Ids -> Seq(Bytes)]
    /\ \A d \in Ids : Pieces(wire[d]) /\ Rising(wire[d])
    /\ \A d \in Ids : wire[d] # << >> =>
          d \in known /\ \A j \in DOMAIN pipe : pipe[j].c \in Openings => pipe[j].id # d

\* What is buffered.
Flows ==
    \A i \in Slots :
       /\ Lists(slot[i])
       /\ slot[i].type \notin Idle =>
            /\ Flow(slot[i], wire[slot[i].id])
            /\ \A y \in Coming : Below(wire[slot[i].id] \o slot[i].high, y) /\ Below(slot[i].low, y)

\* The invariant of the packets, beside SocketInv.
PacketInv == alloc_id <= MaxId /\ Numbers /\ Wires /\ Flows

\* A concatenation of lists of bytes.
LEMMA Joined ==
    ASSUME NEW q \in Seq(Bytes), NEW t \in Seq(Bytes)
    PROVE  /\ q \o t \in Seq(Bytes)
           /\ Len(q) \in Nat /\ Len(t) \in Nat
           /\ Len(q \o t) = Len(q) + Len(t)
           /\ DOMAIN q = 1..Len(q) /\ DOMAIN t = 1..Len(t)
           /\ DOMAIN (q \o t) = 1..Len(q) + Len(t)
           /\ \A j \in 1..Len(q) : (q \o t)[j] = q[j]
           /\ \A j \in 1..Len(t) : (q \o t)[Len(q) + j] = t[j]
           /\ \A j \in (Len(q) + 1)..(Len(q) + Len(t)) : (q \o t)[j] = t[j - Len(q)]
           /\ (q = << >> <=> Len(q) = 0) /\ (t = << >> <=> Len(t) = 0)
<1>1. /\ q \o t \in Seq(Bytes)
      /\ Len(q) \in Nat /\ Len(t) \in Nat
      /\ Len(q \o t) = Len(q) + Len(t)
      /\ DOMAIN q = 1..Len(q) /\ DOMAIN t = 1..Len(t)
      /\ DOMAIN (q \o t) = 1..Len(q) + Len(t)
    OBVIOUS
<1>2. \A j \in 1..Len(q) : (q \o t)[j] = q[j]
    OBVIOUS
<1>3. \A j \in 1..Len(t) : (q \o t)[Len(q) + j] = t[j]
    OBVIOUS
<1>4. \A j \in (Len(q) + 1)..(Len(q) + Len(t)) : (q \o t)[j] = t[j - Len(q)]
    OBVIOUS
<1>5. (q = << >> <=> Len(q) = 0) /\ (t = << >> <=> Len(t) = 0)
    OBVIOUS
<1> QED BY <1>1, <1>2, <1>3, <1>4, <1>5

\* A list cut in two.
LEMMA Parted ==
    ASSUME NEW q \in Seq(Bytes), NEW k \in 0..Len(q)
    PROVE  /\ SubSeq(q, 1, k) \in Seq(Bytes) /\ SubSeq(q, k + 1, Len(q)) \in Seq(Bytes)
           /\ Len(SubSeq(q, 1, k)) = k /\ Len(SubSeq(q, k + 1, Len(q))) = Len(q) - k
           /\ \A j \in 1..k : SubSeq(q, 1, k)[j] = q[j]
           /\ \A j \in 1..(Len(q) - k) : SubSeq(q, k + 1, Len(q))[j] = q[k + j]
           /\ SubSeq(q, 1, k) \o SubSeq(q, k + 1, Len(q)) = q
<1>0. Len(q) \in Nat /\ k \in Nat /\ k <= Len(q) /\ DOMAIN q = 1..Len(q)
      /\ \A j \in 1..Len(q) : q[j] \in Bytes
    OBVIOUS
<1> DEFINE a == SubSeq(q, 1, k)
           c == SubSeq(q, k + 1, Len(q))
<1>1. a \in Seq(Bytes) /\ Len(a) = k /\ \A j \in 1..k : a[j] = q[j]
    <2>1. \A j \in 1..k : q[j] \in Bytes
        BY <1>0
    <2>2. /\ a \in Seq(Bytes)
          /\ Len(a) = IF 1 <= k THEN k - 1 + 1 ELSE 0
          /\ \A j \in 1..k - 1 + 1 : a[j] = q[1 + j - 1]
        BY <1>0, <2>1, SubSeqProperties
    <2> HIDE DEF a
    <2> QED BY <1>0, <2>2
<1>2. c \in Seq(Bytes) /\ Len(c) = Len(q) - k /\ \A j \in 1..(Len(q) - k) : c[j] = q[k + j]
    <2>1. \A j \in (k + 1)..Len(q) : q[j] \in Bytes
        BY <1>0
    <2>2. /\ c \in Seq(Bytes)
          /\ Len(c) = IF k + 1 <= Len(q) THEN Len(q) - (k + 1) + 1 ELSE 0
          /\ \A j \in 1..Len(q) - (k + 1) + 1 : c[j] = q[(k + 1) + j - 1]
        BY <1>0, <2>1, SubSeqProperties
    <2> HIDE DEF c
    <2>3. Len(c) = Len(q) - k
        <3>1. CASE k + 1 <= Len(q)
            <4>1. Len(c) = Len(q) - (k + 1) + 1
                BY <2>2, <3>1
            <4> QED BY <1>0, <4>1
        <3>2. CASE ~(k + 1 <= Len(q))
            <4>1. Len(c) = 0
                BY <2>2, <3>2
            <4>2. Len(q) - k = 0
                <5> DEFINE m == Len(q)
                <5>1. m \in Nat /\ k \in Nat /\ k <= m /\ ~(k + 1 <= m)
                    BY <1>0, <3>2
                <5> HIDE DEF m
                <5>2. m - k = 0
                    BY <5>1
                <5> QED BY <5>2 DEF m
            <4> QED BY <4>1, <4>2
        <3> QED BY <3>1, <3>2
    <2>4. ASSUME NEW j \in 1..(Len(q) - k) PROVE c[j] = q[k + j]
        <3>1. j \in 1..Len(q) - (k + 1) + 1 /\ (k + 1) + j - 1 = k + j
            BY <1>0
        <3> QED BY <2>2, <3>1
    <2> QED BY <2>2, <2>3, <2>4
<1>3. a \o c = q
    <2> HIDE DEF a, c
    <2>0. a \in Seq(Bytes) /\ c \in Seq(Bytes)
        BY <1>1, <1>2
    <2>1. a \o c \in Seq(Bytes) /\ Len(a \o c) = Len(q)
        <3>1. a \o c \in Seq(Bytes) /\ Len(a \o c) = Len(a) + Len(c)
            BY <2>0, Joined
        <3> QED BY <1>0, <1>1, <1>2, <3>1
    <2>2. ASSUME NEW j \in 1..Len(q) PROVE (a \o c)[j] = q[j]
        <3>1. CASE j <= k
            <4>1. \A h \in 1..Len(a) : (a \o c)[h] = a[h]
                BY <2>0, Joined
            <4>2. j \in 1..k
                BY <1>0, <3>1
            <4> QED BY <1>1, <4>1, <4>2
        <3>2. CASE j > k
            <4>1. j - k \in 1..(Len(q) - k) /\ k + (j - k) = j
                BY <1>0, <3>2
            <4>2. (a \o c)[j] = c[j - k]
                BY <1>0, <1>1, <1>2, <3>2, Joined
            <4> QED BY <1>2, <4>1, <4>2
        <3>3. j <= k \/ j > k
            BY <1>0
        <3> QED BY <3>1, <3>2, <3>3
    <2> QED BY <2>1, <2>2, SeqEqual
<1> QED BY <1>1, <1>2, <1>3

\* What is said of a byte.
LEMMA ByteParts ==
    ASSUME NEW q \in Seq(Bytes), NEW j \in DOMAIN q
    PROVE  /\ j \in Nat \ {0} /\ j <= Len(q) /\ q[j] \in Bytes
           /\ q[j].b \in 1..Size /\ q[j].b \in Nat /\ q[j].n \in Int /\ Size \in Nat \ {0}
           /\ q[j].low \in BOOLEAN
           /\ \A i \in 1..Size : Mate(q[j], i).b = i
<1>1. Len(q) \in Nat /\ DOMAIN q = 1..Len(q)
    OBVIOUS
<1>2. q[j] \in Bytes
    OBVIOUS
<1>3. Size \in Nat \ {0}
    BY SocketAssumption
<1>4. \A i \in 1..Size : Mate(q[j], i).b = i
    BY <1>2 DEF Bytes, Mate
<1> QED BY <1>1, <1>2, <1>3, <1>4 DEF Bytes

\* A part at the front has the pieces, too.
LEMMA PiecesFront ==
    ASSUME NEW q \in Seq(Bytes), NEW t \in Seq(Bytes), Pieces(q \o t)
    PROVE  Pieces(q)
<1> DEFINE u == q \o t
<1>1. /\ Len(q) \in Nat /\ Len(u) = Len(q) + Len(t) /\ Len(t) \in Nat
      /\ DOMAIN q = 1..Len(q) /\ DOMAIN u = 1..Len(q) + Len(t)
      /\ \A j \in 1..Len(q) : u[j] = q[j]
    BY Joined
<1>2. Pieces(u)
    OBVIOUS
<1> HIDE DEF u
<1> SUFFICES ASSUME NEW j \in DOMAIN q
             PROVE  /\ q[j].b <= j
                    /\ \A i \in 1..Size : j - q[j].b + i <= Len(q) =>
                          q[j - q[j].b + i] = Mate(q[j], i)
    BY DEF Pieces
<1>3. j \in Nat \ {0} /\ j <= Len(q) /\ q[j].b \in Nat \ {0} /\ Size \in Nat
    BY ByteParts
<1>4. j \in DOMAIN u /\ u[j] = q[j]
    BY <1>1, <1>3
<1>5. u[j].b <= j /\ \A i \in 1..Size : j - u[j].b + i <= Len(u) => u[j - u[j].b + i] = Mate(u[j], i)
    BY <1>2, <1>4 DEF Pieces
<1>6. ASSUME NEW i \in 1..Size, j - q[j].b + i <= Len(q)
      PROVE  q[j - q[j].b + i] = Mate(q[j], i)
    <2>1. j - q[j].b + i \in 1..Len(q) /\ j - q[j].b + i <= Len(u)
        BY <1>1, <1>3, <1>4, <1>5, <1>6
    <2> QED BY <1>1, <1>4, <1>5, <2>1
<1> QED BY <1>4, <1>5, <1>6

\* In whole packets every packet has all its bytes.
LEMMA BlocksFull ==
    ASSUME NEW q \in Seq(Bytes), Blocks(q), NEW j \in DOMAIN q
    PROVE  /\ j - q[j].b + Size <= Len(q)
           /\ q[j].b <= j
           /\ \A i \in 1..Size : q[j - q[j].b + i] = Mate(q[j], i)
<1>1. j \in Nat \ {0} /\ j <= Len(q) /\ q[j].b \in Nat \ {0} /\ Size \in Nat \ {0} /\ q[j].b <= Size
      /\ \A i \in 1..Size : Mate(q[j], i).b = i
    BY ByteParts
<1>2. Len(q) \in Nat /\ DOMAIN q = 1..Len(q) /\ q # << >>
    BY <1>1
<1>3. q[j].b <= j /\ \A i \in 1..Size : j - q[j].b + i <= Len(q) => q[j - q[j].b + i] = Mate(q[j], i)
    BY DEF Blocks, Pieces
<1>4. q[Len(q)].b = Size
    BY <1>2 DEF Blocks
<1> DEFINE m == Len(q)
           b == q[j].b
<1>5. j - b + Size <= m
    <2>0. SUFFICES ASSUME ~(j - b + Size <= m) PROVE FALSE
        OBVIOUS
    <2> DEFINE i == m - j + b
    <2>1. m \in Nat /\ b \in Nat /\ b >= 1 /\ b <= Size /\ j <= m /\ j \in Nat /\ Size \in Nat
        BY <1>1, <1>2
    <2> HIDE DEF m, b
    <2>2. i \in 1..Size /\ i # Size /\ j - b + i = m
        <3>1. i \in Int /\ i >= 1
            BY <2>1
        <3>2. i < Size
            BY <2>0, <2>1
        <3>3. j - b + i = m
            BY <2>1
        <3> HIDE DEF i
        <3> QED BY <2>1, <3>1, <3>2, <3>3
    <2> HIDE DEF i
    <2>3. j - q[j].b + i <= Len(q) /\ j - q[j].b + i = Len(q)
        BY <2>1, <2>2 DEF m, b
    <2>4. q[Len(q)] = Mate(q[j], i)
        BY <1>3, <2>2, <2>3
    <2> QED BY <1>1, <1>4, <2>2, <2>4
<1>6. ASSUME NEW i \in 1..Size PROVE q[j - q[j].b + i] = Mate(q[j], i)
    <2>1. j - q[j].b + i <= Len(q)
        BY <1>1, <1>2, <1>5
    <2> QED BY <1>3, <2>1
<1> QED BY <1>3, <1>5, <1>6

\* Between two packets one ends and the next begins.
LEMMA Boundary ==
    ASSUME NEW q \in Seq(Bytes), Pieces(q), NEW k \in 1..(Len(q) - 1)
    PROVE  q[k].b = Size <=> q[k + 1].b = 1
<1>1. Len(q) \in Nat /\ DOMAIN q = 1..Len(q) /\ k \in DOMAIN q /\ k + 1 \in DOMAIN q /\ k \in Nat
    OBVIOUS
<1>2. q[k].b \in Nat \ {0} /\ q[k].b <= Size /\ \A i \in 1..Size : Mate(q[k], i).b = i
    BY <1>1, ByteParts
<1>3. /\ q[k + 1].b \in Nat \ {0} /\ q[k + 1].b <= Size
      /\ \A i \in 1..Size : Mate(q[k + 1], i).b = i
      /\ Size \in Nat \ {0}
    BY <1>1, ByteParts
<1>4. q[k].b <= k /\ \A i \in 1..Size : k - q[k].b + i <= Len(q) => q[k - q[k].b + i] = Mate(q[k], i)
    BY <1>1 DEF Pieces
<1>5. /\ q[k + 1].b <= k + 1
      /\ \A i \in 1..Size : (k + 1) - q[k + 1].b + i <= Len(q) =>
            q[(k + 1) - q[k + 1].b + i] = Mate(q[k + 1], i)
    BY <1>1 DEF Pieces
<1>6. ASSUME q[k].b = Size PROVE q[k + 1].b = 1
    <2> SUFFICES ASSUME q[k + 1].b # 1 PROVE FALSE
        OBVIOUS
    <2> DEFINE i == q[k + 1].b - 1
    <2>1. i \in 1..Size /\ (k + 1) - q[k + 1].b + i = k /\ k <= Len(q) /\ i # Size
        <3> DEFINE b == q[k + 1].b
                   l == Len(q)
        <3>1. b \in Nat \ {0} /\ b <= Size /\ b # 1 /\ Size \in Nat \ {0}
              /\ l \in Nat /\ k \in 1..(l - 1)
            BY <1>1, <1>3
        <3> SUFFICES b - 1 \in 1..Size /\ (k + 1) - b + (b - 1) = k /\ k <= l /\ b - 1 # Size
            OBVIOUS
        <3> HIDE DEF b, l
        <3> QED BY <3>1
    <2> HIDE DEF i
    <2>2. q[k] = Mate(q[k + 1], i)
        BY <1>5, <2>1
    <2> QED BY <1>3, <1>6, <2>1, <2>2
<1>7. ASSUME q[k + 1].b = 1 PROVE q[k].b = Size
    <2> SUFFICES ASSUME q[k].b # Size PROVE FALSE
        OBVIOUS
    <2> DEFINE i == q[k].b + 1
    <2>1. i \in 1..Size /\ k - q[k].b + i = k + 1 /\ k + 1 <= Len(q) /\ i # 1
        <3> DEFINE b == q[k].b
                   l == Len(q)
        <3>1. b \in Nat \ {0} /\ b <= Size /\ b # Size /\ Size \in Nat \ {0}
              /\ l \in Nat /\ k \in 1..(l - 1)
            BY <1>1, <1>2, <1>3
        <3> SUFFICES b + 1 \in 1..Size /\ k - b + (b + 1) = k + 1 /\ k + 1 <= l /\ b + 1 # 1
            OBVIOUS
        <3> HIDE DEF b, l
        <3> QED BY <3>1
    <2> HIDE DEF i
    <2>2. q[k + 1] = Mate(q[k], i)
        BY <1>4, <2>1
    <2> QED BY <1>2, <1>7, <2>1, <2>2
<1> QED BY <1>6, <1>7

\* Whole packets after whole packets.
LEMMA BlocksJoined ==
    ASSUME NEW q \in Seq(Bytes), NEW t \in Seq(Bytes), Blocks(q), Blocks(t)
    PROVE  Blocks(q \o t)
<1> DEFINE u == q \o t
           l == Len(q)
           m == Len(t)
<1>1. /\ u \in Seq(Bytes) /\ l \in Nat /\ m \in Nat /\ Len(u) = l + m
      /\ DOMAIN q = 1..l /\ DOMAIN t = 1..m /\ DOMAIN u = 1..l + m
      /\ \A j \in 1..l : u[j] = q[j]
      /\ \A j \in 1..m : u[l + j] = t[j]
      /\ (q = << >> <=> l = 0) /\ (t = << >> <=> m = 0)
    BY Joined
<1>2. u = << >> <=> l + m = 0
    BY <1>1
<1> HIDE DEF u
<1> DEFINE G(x) == u[x].b <= x /\ \A i \in 1..Size : u[x - u[x].b + i] = Mate(u[x], i)
<1>3. ASSUME NEW j \in 1..l
      PROVE  G(j)
    <2>1. j \in DOMAIN q /\ u[j] = q[j] /\ j \in Nat
        BY <1>1
    <2>2. /\ j - q[j].b + Size <= l /\ q[j].b <= j
          /\ \A i \in 1..Size : q[j - q[j].b + i] = Mate(q[j], i)
        BY <2>1, BlocksFull
    <2>3. q[j].b \in Nat /\ Size \in Nat
        BY <2>1, ByteParts
    <2> HIDE DEF l, m
    <2>4. ASSUME NEW i \in 1..Size PROVE u[j - q[j].b + i] = Mate(q[j], i)
        <3>1. j - q[j].b + i \in 1..l
            BY <1>1, <2>1, <2>2, <2>3
        <3> QED BY <1>1, <2>2, <3>1
    <2> QED BY <2>1, <2>2, <2>4
<1>4. ASSUME NEW j \in 1..m
      PROVE  G(l + j)
    <2>1. j \in DOMAIN t /\ u[l + j] = t[j] /\ j \in Nat
        BY <1>1
    <2>2. /\ j - t[j].b + Size <= m /\ t[j].b <= j
          /\ \A i \in 1..Size : t[j - t[j].b + i] = Mate(t[j], i)
        BY <2>1, BlocksFull
    <2>3. t[j].b \in Nat /\ Size \in Nat
        BY <2>1, ByteParts
    <2> HIDE DEF l, m
    <2>4. ASSUME NEW i \in 1..Size PROVE u[l + j - t[j].b + i] = Mate(t[j], i)
        <3> DEFINE a == j - t[j].b + i
        <3> DEFINE b == t[j].b
        <3>1. a \in 1..m /\ l + j - t[j].b + i = l + a
            <4>1. /\ b \in Nat /\ Size \in Nat /\ j \in Nat /\ l \in Nat /\ m \in Nat
                  /\ b <= j /\ j - b + Size <= m
                BY <1>1, <2>1, <2>2, <2>3
            <4> HIDE DEF b
            <4>2. j - b + i \in 1..m /\ l + j - b + i = l + (j - b + i)
                BY <4>1
            <4> QED BY <4>2 DEF b
        <3>2. t[a] = Mate(t[j], i)
            BY <2>2
        <3> HIDE DEF a
        <3>3. u[l + a] = t[a]
            BY <1>1, <3>1
        <3> QED BY <3>1, <3>2, <3>3
    <2>5. t[j].b <= l + j
        BY <1>1, <2>1, <2>2, <2>3
    <2> DEFINE g == l + j
    <2>6. u[g] = t[j] /\ t[j].b <= g
        BY <2>1, <2>5
    <2>7. ASSUME NEW i \in 1..Size PROVE u[g - t[j].b + i] = Mate(t[j], i)
        <3>1. g - t[j].b + i = l + j - t[j].b + i
            BY <1>1, <2>1, <2>3
        <3> QED BY <2>4, <3>1
    <2> HIDE DEF g
    <2>8. G(g)
        BY <2>6, <2>7
    <2> QED BY <2>8 DEF g
<1>5. ASSUME NEW j \in 1..l + m
      PROVE  G(j)
    <2> HIDE DEF l, m, G
    <2>1. CASE j <= l
        <3>1. j \in 1..l
            BY <1>1, <2>1
        <3> QED BY <1>3, <3>1
    <2>2. CASE j > l
        <3>1. PICK h \in 1..m : j = l + h
            <4>1. j - l \in 1..m /\ j = l + (j - l)
                BY <1>1, <2>2
            <4> QED BY <4>1
        <3>2. G(l + h)
            BY <1>4
        <3> QED BY <3>1, <3>2
    <2>3. j <= l \/ j > l
        BY <1>1
    <2> QED BY <2>1, <2>2, <2>3
<1>6. Pieces(u)
    BY <1>1, <1>5 DEF Pieces
<1>7. ASSUME u # << >> PROVE u[Len(u)].b = Size
    <2>1. q # << >> => q[l].b = Size
        BY DEF Blocks
    <2>2. t # << >> => t[m].b = Size
        BY DEF Blocks
    <2> HIDE DEF l, m
    <2>3. CASE m = 0
        <3>1. l # 0 /\ l \in 1..l /\ Len(u) = l
            BY <1>1, <1>2, <1>7, <2>3
        <3> QED BY <1>1, <2>1, <3>1
    <2>4. CASE m # 0
        <3>1. m \in 1..m /\ Len(u) = l + m
            BY <1>1, <2>4
        <3> QED BY <1>1, <2>2, <2>4, <3>1
    <2> QED BY <2>3, <2>4
<1>8. Blocks(u)
    BY <1>6, <1>7 DEF Blocks
<1> QED BY <1>8 DEF u

\* Whole packets cut where one begins are whole packets on both sides.
LEMMA BlocksParted ==
    ASSUME NEW a \in Seq(Bytes), NEW c \in Seq(Bytes), Blocks(a \o c),
           c # << >> => c[1].b = 1
    PROVE  Blocks(a) /\ Blocks(c)
<1> DEFINE q == a \o c
           k == Len(a)
           m == Len(q)
<1>1. /\ Len(a) = k /\ Len(c) = m - k
      /\ \A j \in 1..k : a[j] = q[j]
      /\ \A j \in 1..(m - k) : c[j] = q[k + j]
    <2>1. /\ \A j \in 1..k : q[j] = a[j]
          /\ \A j \in 1..Len(c) : q[k + j] = c[j]
        BY Joined
    <2>2. m = k + Len(c) /\ k \in Nat /\ Len(c) \in Nat
        BY Joined
    <2>3. Len(c) = m - k
        BY <2>2
    <2> QED BY <2>1, <2>3
<1>0. DOMAIN q = 1..m /\ (q = << >> <=> m = 0) /\ q \in Seq(Bytes)
    BY Joined
<1>2. m \in Nat /\ k \in Nat /\ k <= m
    BY Joined
<1>11. k = m \/ q[k + 1].b = 1
    <2>1. CASE c = << >>
        <3>1. Len(c) = 0
            BY <2>1
        <3> QED BY <1>1, <1>2, <3>1
    <2>2. CASE c # << >>
        <3>1. Len(c) # 0 /\ Len(c) \in Nat
            BY <2>2
        <3>2. 1 \in 1..(m - k)
            BY <1>1, <1>2, <3>1
        <3> QED BY <1>1, <2>2, <3>2
    <2> QED BY <2>1, <2>2
<1> HIDE DEF q
<1>12. Blocks(q)
    BY DEF q
<1>3. Pieces(q) /\ (m # 0 => q[m].b = Size)
    BY <1>0, <1>12 DEF Blocks
<1>4. k # 0 => q[k].b = Size
    <2>1. CASE k = m
        BY <1>3, <2>1
    <2>2. CASE k # 0 /\ k # m
        <3>1. q[k + 1].b = 1
            BY <1>11, <2>2
        <3>2. k \in 1..(Len(q) - 1)
            <4> HIDE DEF k, m
            <4>1. k \in 1..(m - 1)
                BY <1>2, <2>2
            <4> QED BY <4>1 DEF m
        <3> HIDE DEF k
        <3> QED BY <1>0, <1>3, <3>1, <3>2, Boundary
    <2> QED BY <2>1, <2>2
<1> HIDE DEF k, m
<1>5. Blocks(a)
    <2>1. Pieces(a)
        BY <1>3, PiecesFront DEF q
    <2>2. a # << >> => a[Len(a)].b = Size
        <3> SUFFICES ASSUME a # << >> PROVE a[Len(a)].b = Size
            OBVIOUS
        <3>1. k # 0
            BY <1>1
        <3>2. k \in 1..k
            BY <1>2, <3>1
        <3> QED BY <1>1, <1>4, <3>1, <3>2
    <2> QED BY <2>1, <2>2 DEF Blocks
<1>6. DOMAIN c = 1..(m - k)
    <2>1. DOMAIN c = 1..Len(c)
        BY <1>1
    <2> QED BY <1>1, <2>1
<1>7. ASSUME NEW j \in 1..(m - k)
      PROVE  /\ c[j].b <= j
             /\ \A i \in 1..Size : j - c[j].b + i <= Len(c) => c[j - c[j].b + i] = Mate(c[j], i)
    <2> DEFINE h == k + j
               b == q[h].b
    <2>1. h \in DOMAIN q /\ c[j] = q[h] /\ j \in Nat \ {0} /\ h \in Nat /\ h <= m
        BY <1>0, <1>1, <1>2
    <2>2. /\ h - q[h].b + Size <= m /\ q[h].b <= h
          /\ \A i \in 1..Size : q[h - q[h].b + i] = Mate(q[h], i)
        BY <1>0, <1>12, <2>1, BlocksFull DEF m
    <2>3. b \in Nat /\ b >= 1 /\ b <= Size /\ Size \in Nat
        <3> HIDE DEF h
        <3>1. q[h].b \in 1..Size /\ Size \in Nat \ {0}
            BY <1>0, <2>1, ByteParts
        <3> HIDE DEF b
        <3>2. b \in 1..Size
            BY <3>1 DEF b
        <3> QED BY <3>1, <3>2
    <2>6. \A i \in 1..Size : Mate(q[h], i).b = i
        BY <1>0, <2>1, ByteParts
    <2>7. h = k + j /\ j \in Nat /\ j >= 1 /\ h \in Nat /\ h <= m /\ b <= h
        BY <2>1, <2>2
    <2> HIDE DEF h, b
    <2>4. b <= j
        <3>0. SUFFICES ASSUME ~(b <= j) PROVE FALSE
            OBVIOUS
        <3> DEFINE i == b - j
        <3>1. i \in 1..Size /\ h - b + i = k /\ i # Size /\ k # 0
            <4>1. i \in Int /\ i >= 1 /\ i < Size
                BY <2>3, <2>7, <3>0
            <4>2. h - b + i = k
                BY <1>2, <2>3, <2>7
            <4>3. k # 0
                BY <1>2, <2>3, <2>7, <3>0
            <4> HIDE DEF i
            <4> QED BY <2>3, <4>1, <4>2, <4>3
        <3> HIDE DEF i
        <3>2. q[k] = Mate(q[h], i) /\ Mate(q[h], i).b = i
            BY <2>2, <2>6, <3>1 DEF b
        <3> QED BY <1>4, <3>1, <3>2
    <2>5. ASSUME NEW i \in 1..Size, j - b + i <= m - k
          PROVE  c[j - b + i] = Mate(q[h], i)
        <3> DEFINE e == j - b + i
        <3>1. e \in 1..(m - k) /\ k + e = h - b + i
            <4>1. e \in Int /\ e >= 1 /\ e <= m - k
                BY <1>2, <2>3, <2>4, <2>5, <2>7
            <4>2. k + e = h - b + i
                BY <1>2, <2>3, <2>7
            <4> HIDE DEF e
            <4> QED BY <1>2, <4>1, <4>2
        <3> HIDE DEF e
        <3>2. c[e] = q[k + e] /\ q[k + e] = Mate(q[h], i)
            BY <1>1, <2>2, <3>1 DEF b
        <3> QED BY <3>2 DEF e
    <2>8. c[j].b = b /\ c[j] = q[h]
        BY <2>1 DEF b
    <2> QED BY <1>1, <2>4, <2>5, <2>8
<1>8. Pieces(c)
    BY <1>6, <1>7 DEF Pieces
<1>9. c # << >> => c[Len(c)].b = Size
    <2> SUFFICES ASSUME c # << >> PROVE c[Len(c)].b = Size
        OBVIOUS
    <2>1. m - k # 0
        BY <1>1
    <2>2. m - k \in 1..(m - k) /\ k + (m - k) = m /\ m # 0
        BY <1>2, <2>1
    <2> QED BY <1>1, <1>3, <2>2
<1>10. Blocks(c)
    BY <1>8, <1>9 DEF Blocks
<1> QED BY <1>5, <1>10

\* The bytes of a concatenation are those of its parts.
LEMMA JoinedBytes ==
    ASSUME NEW q \in Seq(Bytes), NEW t \in Seq(Bytes)
    PROVE  /\ \A j \in DOMAIN (q \o t) : \/ \E h \in DOMAIN q : (q \o t)[j] = q[h]
                                         \/ \E h \in DOMAIN t : (q \o t)[j] = t[h]
           /\ \A h \in DOMAIN q : \E j \in DOMAIN (q \o t) : (q \o t)[j] = q[h]
           /\ \A h \in DOMAIN t : \E j \in DOMAIN (q \o t) : (q \o t)[j] = t[h]
<1> DEFINE u == q \o t
           l == Len(q)
           m == Len(t)
<1>1. DOMAIN q = 1..l /\ DOMAIN t = 1..m /\ DOMAIN u = 1..l + m
    BY Joined
<1>2. /\ \A j \in 1..l : u[j] = q[j]
      /\ \A j \in 1..m : u[l + j] = t[j]
      /\ \A j \in (l + 1)..(l + m) : u[j] = t[j - l]
    BY Joined
<1>3. l \in Nat /\ m \in Nat
    OBVIOUS
<1> HIDE DEF u, l, m
<1>4. ASSUME NEW j \in 1..l + m
      PROVE  (\E h \in 1..l : u[j] = q[h]) \/ (\E h \in 1..m : u[j] = t[h])
    <2>1. CASE j <= l
        <3>1. j \in 1..l
            BY <1>3, <2>1
        <3> QED BY <1>2, <3>1
    <2>2. CASE j > l
        <3>1. j \in (l + 1)..(l + m) /\ j - l \in 1..m
            BY <1>3, <2>2
        <3> QED BY <1>2, <3>1
    <2>3. j <= l \/ j > l
        BY <1>3
    <2> QED BY <2>1, <2>2, <2>3
<1>5. ASSUME NEW h \in 1..l PROVE \E j \in 1..l + m : u[j] = q[h]
    <2>1. h \in 1..l + m
        BY <1>3
    <2> QED BY <1>2, <2>1
<1>6. ASSUME NEW h \in 1..m PROVE \E j \in 1..l + m : u[j] = t[h]
    <2>1. l + h \in 1..l + m
        BY <1>3
    <2> QED BY <1>2, <2>1
<1>7. /\ \A j \in DOMAIN u : (\E h \in DOMAIN q : u[j] = q[h]) \/ (\E h \in DOMAIN t : u[j] = t[h])
      /\ \A h \in DOMAIN q : \E j \in DOMAIN u : u[j] = q[h]
      /\ \A h \in DOMAIN t : \E j \in DOMAIN u : u[j] = t[h]
    BY <1>1, <1>4, <1>5, <1>6
<1> QED BY <1>7 DEF u

\* What holds of all bytes of two lists.
LEMMA JoinedAll ==
    ASSUME NEW q \in Seq(Bytes), NEW t \in Seq(Bytes)
    PROVE  /\ \A v : Before(q \o t, v) <=> Before(q, v) /\ Before(t, v)
           /\ \A v : Before(v, q \o t) <=> Before(v, q) /\ Before(v, t)
           /\ \A y : Below(q \o t, y) <=> Below(q, y) /\ Below(t, y)
           /\ OnlyLow(q \o t) <=> OnlyLow(q) /\ OnlyLow(t)
<1> DEFINE u == q \o t
<1>1. /\ \A j \in DOMAIN u : (\E h \in DOMAIN q : u[j] = q[h]) \/ (\E h \in DOMAIN t : u[j] = t[h])
      /\ \A h \in DOMAIN q : \E j \in DOMAIN u : u[j] = q[h]
      /\ \A h \in DOMAIN t : \E j \in DOMAIN u : u[j] = t[h]
    BY JoinedBytes
<1> HIDE DEF u
<1>2. ASSUME NEW v PROVE Before(u, v) => Before(q, v) /\ Before(t, v)
    <2> SUFFICES ASSUME Before(u, v) PROVE Before(q, v) /\ Before(t, v)
        OBVIOUS
    <2>1. \A j \in DOMAIN u : \A k \in DOMAIN v : Precedes(u[j], v[k])
        BY DEF Before
    <2>2. ASSUME NEW h \in DOMAIN q, NEW k \in DOMAIN v PROVE Precedes(q[h], v[k])
        <3>1. PICK j \in DOMAIN u : u[j] = q[h]
            BY <1>1
        <3>2. Precedes(u[j], v[k])
            BY <2>1
        <3> QED BY <3>1, <3>2
    <2>3. ASSUME NEW h \in DOMAIN t, NEW k \in DOMAIN v PROVE Precedes(t[h], v[k])
        <3>1. PICK j \in DOMAIN u : u[j] = t[h]
            BY <1>1
        <3>2. Precedes(u[j], v[k])
            BY <2>1
        <3> QED BY <3>1, <3>2
    <2> QED BY <2>2, <2>3 DEF Before
<1>3. ASSUME NEW v PROVE Before(q, v) /\ Before(t, v) => Before(u, v)
    <2> SUFFICES ASSUME Before(q, v), Before(t, v), NEW j \in DOMAIN u, NEW k \in DOMAIN v
                 PROVE  Precedes(u[j], v[k])
        BY DEF Before
    <2>1. CASE \E h \in DOMAIN q : u[j] = q[h]
        BY <2>1 DEF Before
    <2>2. CASE \E h \in DOMAIN t : u[j] = t[h]
        BY <2>2 DEF Before
    <2> QED BY <1>1, <2>1, <2>2
<1>4. ASSUME NEW v PROVE Before(v, u) => Before(v, q) /\ Before(v, t)
    <2> SUFFICES ASSUME Before(v, u) PROVE Before(v, q) /\ Before(v, t)
        OBVIOUS
    <2>1. \A k \in DOMAIN v : \A j \in DOMAIN u : Precedes(v[k], u[j])
        BY DEF Before
    <2>2. ASSUME NEW k \in DOMAIN v, NEW h \in DOMAIN q PROVE Precedes(v[k], q[h])
        <3>1. PICK j \in DOMAIN u : u[j] = q[h]
            BY <1>1
        <3>2. Precedes(v[k], u[j])
            BY <2>1
        <3> QED BY <3>1, <3>2
    <2>3. ASSUME NEW k \in DOMAIN v, NEW h \in DOMAIN t PROVE Precedes(v[k], t[h])
        <3>1. PICK j \in DOMAIN u : u[j] = t[h]
            BY <1>1
        <3>2. Precedes(v[k], u[j])
            BY <2>1
        <3> QED BY <3>1, <3>2
    <2> QED BY <2>2, <2>3 DEF Before
<1>5. ASSUME NEW v PROVE Before(v, q) /\ Before(v, t) => Before(v, u)
    <2> SUFFICES ASSUME Before(v, q), Before(v, t), NEW k \in DOMAIN v, NEW j \in DOMAIN u
                 PROVE  Precedes(v[k], u[j])
        BY DEF Before
    <2>1. CASE \E h \in DOMAIN q : u[j] = q[h]
        BY <2>1 DEF Before
    <2>2. CASE \E h \in DOMAIN t : u[j] = t[h]
        BY <2>2 DEF Before
    <2> QED BY <1>1, <2>1, <2>2
<1>6. ASSUME NEW y PROVE Below(u, y) <=> Below(q, y) /\ Below(t, y)
    BY <1>1 DEF Below
<1>7. OnlyLow(u) <=> OnlyLow(q) /\ OnlyLow(t)
    BY <1>1 DEF OnlyLow
<1> QED BY <1>2, <1>3, <1>4, <1>5, <1>6, <1>7 DEF u

\* The order of a concatenation.
LEMMA JoinedRises ==
    ASSUME NEW q \in Seq(Bytes), NEW t \in Seq(Bytes)
    PROVE  Rising(q \o t) <=> Rising(q) /\ Rising(t) /\ Before(q, t)
<1> DEFINE u == q \o t
           l == Len(q)
           m == Len(t)
<1>1. DOMAIN q = 1..l /\ DOMAIN t = 1..m /\ DOMAIN u = 1..l + m
    BY Joined
<1>2. /\ \A j \in 1..l : u[j] = q[j]
      /\ \A j \in 1..m : u[l + j] = t[j]
      /\ \A j \in (l + 1)..(l + m) : u[j] = t[j - l]
    BY Joined
<1>3. l \in Nat /\ m \in Nat
    OBVIOUS
<1> HIDE DEF u, l, m
<1>4. ASSUME Rising(u) PROVE Rising(q) /\ Rising(t) /\ Before(q, t)
    <2>0. \A j \in 1..l + m : \A h \in 1..j - 1 : Precedes(u[h], u[j])
        BY <1>1, <1>4 DEF Rising
    <2>1. ASSUME NEW j \in 1..l, NEW h \in 1..j - 1 PROVE Precedes(q[h], q[j])
        <3>1. j \in 1..l + m /\ h \in 1..l
            BY <1>3
        <3> QED BY <1>2, <2>0, <3>1
    <2>2. ASSUME NEW j \in 1..m, NEW h \in 1..j - 1 PROVE Precedes(t[h], t[j])
        <3>1. l + j \in 1..l + m /\ l + h \in 1..(l + j) - 1 /\ h \in 1..m
            BY <1>3
        <3>2. Precedes(u[l + h], u[l + j])
            BY <2>0, <3>1
        <3> QED BY <1>2, <3>1, <3>2
    <2>3. ASSUME NEW h \in 1..l, NEW j \in 1..m PROVE Precedes(q[h], t[j])
        <3>1. l + j \in 1..l + m /\ h \in 1..(l + j) - 1
            BY <1>3
        <3>2. Precedes(u[h], u[l + j])
            BY <2>0, <3>1
        <3> QED BY <1>2, <3>2
    <2> QED BY <1>1, <2>1, <2>2, <2>3 DEF Rising, Before
<1>5. ASSUME Rising(q), Rising(t), Before(q, t) PROVE Rising(u)
    <2>1. /\ \A j \in 1..l : \A h \in 1..j - 1 : Precedes(q[h], q[j])
          /\ \A j \in 1..m : \A h \in 1..j - 1 : Precedes(t[h], t[j])
          /\ \A h \in 1..l : \A j \in 1..m : Precedes(q[h], t[j])
        BY <1>1, <1>5 DEF Rising, Before
    <2> SUFFICES ASSUME NEW j \in 1..l + m, NEW h \in 1..j - 1
                 PROVE  Precedes(u[h], u[j])
        BY <1>1 DEF Rising
    <2>2. CASE j <= l
        <3>1. j \in 1..l /\ h \in 1..l
            BY <1>3, <2>2
        <3> QED BY <1>2, <2>1, <3>1
    <2>3. CASE j > l /\ h <= l
        <3>1. j \in (l + 1)..(l + m) /\ j - l \in 1..m /\ h \in 1..l
            BY <1>3, <2>3
        <3> QED BY <1>2, <2>1, <3>1
    <2>4. CASE j > l /\ h > l
        <3>1. j \in (l + 1)..(l + m) /\ j - l \in 1..m
            BY <1>3, <2>4
        <3>2. h \in (l + 1)..(l + m) /\ h - l \in 1..(j - l) - 1
            BY <1>3, <2>4
        <3>3. Precedes(t[h - l], t[j - l])
            BY <2>1, <3>1, <3>2
        <3> QED BY <1>2, <3>1, <3>2, <3>3
    <2>5. j <= l \/ (j > l /\ h <= l) \/ (j > l /\ h > l)
        BY <1>3
    <2> QED BY <2>2, <2>3, <2>4, <2>5
<1> QED BY <1>4, <1>5 DEF u

\* A packet.
LEMMA PacketBytes ==
    ASSUME NEW n \in Int, NEW l \in BOOLEAN
    PROVE  /\ Packet(n, l) \in Seq(Bytes) /\ Len(Packet(n, l)) = Size
           /\ Blocks(Packet(n, l)) /\ Rising(Packet(n, l))
           /\ \A y \in Int : n < y => Below(Packet(n, l), y)
           /\ l = TRUE => OnlyLow(Packet(n, l))
           /\ \A q \in Seq(Bytes) : Below(q, n) => Before(q, Packet(n, l))
           /\ \A q \in Seq(Bytes) : l = FALSE /\ OnlyLow(q) => Before(Packet(n, l), q)
<1> DEFINE P == Packet(n, l)
<1>1. Size \in Nat \ {0}
    BY SocketAssumption
<1>2. P = [b \in 1..Size |-> [n |-> n, b |-> b, low |-> l]]
    BY DEF Packet
<1> HIDE DEF P
<1>3. \A j \in 1..Size : P[j] \in Bytes /\ P[j].b = j /\ P[j].n = n /\ P[j].low = l
    BY <1>2 DEF Bytes
<1>4. P \in Seq(Bytes)
    <2>1. P \in [1..Size -> Bytes]
        BY <1>2, <1>3
    <2> QED BY <1>1, <2>1
<1>5. DOMAIN P = 1..Size /\ Len(P) = Size
    <2>1. DOMAIN P = 1..Size
        BY <1>2
    <2>2. Len(P) \in Nat /\ DOMAIN P = 1..Len(P)
        BY <1>4
    <2> QED BY <1>1, <2>1, <2>2
<1>6. Blocks(P)
    <2>1. ASSUME NEW j \in 1..Size, NEW i \in 1..Size
          PROVE  j - P[j].b + i = i /\ P[i] = Mate(P[j], i)
        <3>1. j - P[j].b + i = i
            BY <1>3
        <3>2. P[i] = [n |-> n, b |-> i, low |-> l] /\ P[j] = [n |-> n, b |-> j, low |-> l]
            BY <1>2
        <3>3. [P[j] EXCEPT !.b = i] = [n |-> n, b |-> i, low |-> l]
            BY <3>2
        <3> QED BY <3>1, <3>2, <3>3 DEF Mate
    <2>2. \A j \in 1..Size : P[j].b <= j
        BY <1>3
    <2>3. Pieces(P)
        BY <1>5, <2>1, <2>2 DEF Pieces
    <2>4. Size \in 1..Size
        BY <1>1
    <2> QED BY <1>3, <1>5, <2>3, <2>4 DEF Blocks
<1>7. Rising(P)
    <2> SUFFICES ASSUME NEW j \in 1..Size, NEW h \in 1..j - 1 PROVE Precedes(P[h], P[j])
        BY <1>5 DEF Rising
    <2>1. h \in 1..Size /\ h < j
        BY <1>1
    <2> QED BY <1>3, <2>1 DEF Precedes
<1>8. \A y \in Int : n < y => Below(P, y)
    BY <1>3, <1>5 DEF Below
<1>9. l = TRUE => OnlyLow(P)
    BY <1>3, <1>5 DEF OnlyLow
<1>10. ASSUME NEW q \in Seq(Bytes), Below(q, n) PROVE Before(q, P)
    <2> SUFFICES ASSUME NEW h \in DOMAIN q, NEW j \in 1..Size PROVE Precedes(q[h], P[j])
        BY <1>5 DEF Before
    <2>1. q[h].n < n
        BY <1>10 DEF Below
    <2> QED BY <1>3, <2>1 DEF Precedes
<1>11. ASSUME NEW q \in Seq(Bytes), l = FALSE, OnlyLow(q) PROVE Before(P, q)
    <2> SUFFICES ASSUME NEW h \in 1..Size, NEW j \in DOMAIN q PROVE Precedes(P[h], q[j])
        BY <1>5 DEF Before
    <2>1. q[j].low = TRUE /\ P[h].low = FALSE
        BY <1>3, <1>11 DEF OnlyLow
    <2> QED BY <2>1 DEF Precedes
<1> QED BY <1>4, <1>5, <1>6, <1>7, <1>8, <1>9, <1>10, <1>11 DEF P

\* The front of what is buffered.
LEMMA Foremost ==
    ASSUME NEW a \in Seq(Bytes), NEW c \in Seq(Bytes), NEW k \in 0..Len(a) + Len(c)
    PROVE  /\ k <= Len(a) => SubSeq(a \o c, 1, k) = SubSeq(a, 1, k)
           /\ k >= Len(a) => SubSeq(a \o c, 1, k) = a \o SubSeq(c, 1, k - Len(a))
<1> DEFINE u == a \o c
           l == Len(a)
           m == Len(c)
           f == SubSeq(u, 1, k)
<1>1. /\ u \in Seq(Bytes) /\ Len(u) = l + m
      /\ \A j \in 1..l : u[j] = a[j]
      /\ \A j \in 1..m : u[l + j] = c[j]
    BY Joined
<1>2. l \in Nat /\ m \in Nat /\ k \in Nat /\ k <= l + m
    OBVIOUS
<1>3. k \in 0..Len(u)
    BY <1>1
<1> HIDE DEF u
<1>4. f \in Seq(Bytes) /\ Len(f) = k /\ \A j \in 1..k : f[j] = u[j]
    BY <1>1, <1>3, Parted
<1> HIDE DEF f
<1>5. ASSUME k <= l PROVE f = SubSeq(a, 1, k)
    <2>1. k \in 0..Len(a)
        BY <1>2, <1>5
    <2>2. /\ SubSeq(a, 1, k) \in Seq(Bytes) /\ Len(SubSeq(a, 1, k)) = k
          /\ \A j \in 1..k : SubSeq(a, 1, k)[j] = a[j]
        BY <2>1, Parted
    <2> HIDE DEF l, m
    <2>3. ASSUME NEW j \in 1..k PROVE f[j] = SubSeq(a, 1, k)[j]
        <3>1. j \in 1..l
            BY <1>2, <1>5
        <3> QED BY <1>1, <1>4, <2>2, <3>1
    <2> QED BY <1>4, <2>2, <2>3, SeqEqual
<1>6. ASSUME k >= l PROVE f = a \o SubSeq(c, 1, k - l)
    <2> DEFINE d == SubSeq(c, 1, k - l)
    <2>1. k - l \in 0..Len(c)
        <3> HIDE DEF l, m
        <3>1. k - l \in 0..m
            BY <1>2, <1>6
        <3> QED BY <3>1 DEF m
    <2>2. d \in Seq(Bytes) /\ Len(d) = k - l /\ \A j \in 1..k - l : d[j] = c[j]
        BY <2>1, Parted
    <2> HIDE DEF d
    <2>3. /\ a \o d \in Seq(Bytes) /\ Len(a \o d) = l + Len(d)
          /\ \A j \in 1..l : (a \o d)[j] = a[j]
          /\ \A j \in 1..Len(d) : (a \o d)[l + j] = d[j]
        BY <2>2, Joined
    <2>4. Len(a \o d) = k
        BY <1>2, <2>2, <2>3
    <2> HIDE DEF l, m
    <2>5. ASSUME NEW j \in 1..k PROVE f[j] = (a \o d)[j]
        <3>1. CASE j <= l
            <4>1. j \in 1..l
                BY <1>2, <3>1
            <4> QED BY <1>1, <1>4, <2>3, <4>1
        <3>2. CASE j > l
            <4> DEFINE h == j - l
            <4>1. h \in 1..k - l /\ h \in 1..m /\ l + h = j
                BY <1>2, <3>2
            <4> HIDE DEF h
            <4>2. u[l + h] = c[h] /\ (a \o d)[l + h] = d[h] /\ d[h] = c[h]
                BY <1>1, <2>2, <2>3, <4>1
            <4> QED BY <1>4, <4>1, <4>2
        <3>3. j <= l \/ j > l
            BY <1>2
        <3> QED BY <3>1, <3>2, <3>3
    <2>6. f = a \o d
        BY <1>4, <2>3, <2>4, <2>5, SeqEqual
    <2> QED BY <2>6 DEF d
<1> QED BY <1>5, <1>6 DEF f, u

\* Concatenation of three lists.
LEMMA Chained ==
    ASSUME NEW q \in Seq(Bytes), NEW t \in Seq(Bytes), NEW v \in Seq(Bytes)
    PROVE  (q \o t) \o v = q \o (t \o v)
BY ConcatAssociative

\* Whole packets begin with the first byte of one.
LEMMA BlocksBegin ==
    ASSUME NEW c \in Seq(Bytes), Blocks(c)
    PROVE  c # << >> => c[1].b = 1
<1> SUFFICES ASSUME c # << >> PROVE c[1].b = 1
    OBVIOUS
<1>1. 1 \in DOMAIN c
    OBVIOUS
<1>2. c[1].b <= 1
    BY <1>1, BlocksFull
<1>3. c[1].b \in Nat \ {0}
    BY <1>1, ByteParts
<1> DEFINE b == c[1].b
<1> HIDE DEF b
<1>4. b <= 1 /\ b \in Nat \ {0}
    BY <1>2, <1>3 DEF b
<1>5. b = 1
    BY <1>4
<1> QED BY <1>5 DEF b

\* What send_list has taken of the lists a and c, with k bytes.
OfHigh(a, k) == IF k < Len(a) THEN k ELSE Len(a)

\* What is left of them.
HighLeft(a, k) == SubSeq(a, OfHigh(a, k) + 1, Len(a))
\* What is left of the low list, of which the rest of the k bytes were taken.
LowLeft(a, c, k) == SubSeq(c, k - OfHigh(a, k) + 1, Len(c))

\* What is left of both lists: the bytes taken and the rest of a are all of
\* a and a part e of c.
LEMMA Left ==
    ASSUME NEW a \in Seq(Bytes), NEW c \in Seq(Bytes), NEW k \in 0..Len(a) + Len(c)
    PROVE  /\ SubSeq(a \o c, 1, k) \in Seq(Bytes)
           /\ HighLeft(a, k) \in Seq(Bytes) /\ LowLeft(a, c, k) \in Seq(Bytes)
           /\ Len(HighLeft(a, k)) + Len(LowLeft(a, c, k)) = Len(a) + Len(c) - k
           /\ \E e \in Seq(Bytes) : /\ c = e \o LowLeft(a, c, k)
                                    /\ SubSeq(a \o c, 1, k) \o HighLeft(a, k) = a \o e
                                    /\ HighLeft(a, k) = << >> \/ e = << >>
<1> DEFINE l == Len(a)
           m == Len(c)
           h == OfHigh(a, k)
           x == SubSeq(a \o c, 1, k)
           a1 == HighLeft(a, k)
           c1 == LowLeft(a, c, k)
<1>1. l \in Nat /\ m \in Nat /\ k \in Nat /\ k <= l + m
    OBVIOUS
<1>2. k <= l \/ k > l
    BY <1>1
<1>3. CASE k <= l
    <2>1. h = k
        <3> HIDE DEF l
        <3>1. k < l \/ k = l
            BY <1>1, <1>3
        <3> QED BY <3>1 DEF OfHigh, l
    <2>2. k \in 0..Len(a) /\ k - h + 1 = 1
        BY <1>1, <1>3, <2>1
    <2> HIDE DEF h
    <2> DEFINE p == SubSeq(a, 1, k)
               a3 == SubSeq(a, k + 1, Len(a))
    <2>3. p \in Seq(Bytes) /\ a3 \in Seq(Bytes) /\ Len(a3) = l - k /\ p \o a3 = a
        BY <2>2, Parted
    <2>4. SubSeq(c, 1, Len(c)) = c
        BY SubSeqFull
    <2>5. a1 = a3 /\ c1 = c
        BY <2>1, <2>2, <2>4 DEF h, HighLeft, LowLeft
    <2>6. x = p
        <3>1. k <= Len(a) => SubSeq(a \o c, 1, k) = SubSeq(a, 1, k)
            BY Foremost, Zenon
        <3> QED BY <1>3, <3>1, Zenon
    <2> HIDE DEF p, a3, x
    <2>7. << >> \in Seq(Bytes) /\ << >> \o c = c /\ a \o << >> = a
        BY ConcatEmptySeq
    <2>8. Len(a1) + Len(c1) = l + m - k
        <3>1. Len(a1) = l - k /\ Len(c1) = m
            BY <2>3, <2>5
        <3> HIDE DEF l, m
        <3>2. (l - k) + m = l + m - k
            BY <1>1
        <3> QED BY <3>1, <3>2, Zenon
    <2>9. /\ x \in Seq(Bytes) /\ a1 \in Seq(Bytes) /\ c1 \in Seq(Bytes)
          /\ c = << >> \o c1 /\ x \o a1 = a \o << >>
        BY <2>3, <2>5, <2>6, <2>7
    <2> QED BY <2>7, <2>8, <2>9 DEF x
<1>4. CASE k > l
    <2> DEFINE i == k - l
               p == SubSeq(c, 1, i)
    <2>1. h = l
        <3> HIDE DEF l
        <3>1. ~(k < l)
            BY <1>1, <1>4
        <3> QED BY <3>1 DEF OfHigh, l
    <2>2. i \in 0..Len(c)
        <3> HIDE DEF l, m
        <3>1. i \in 0..m
            BY <1>1, <1>4
        <3> QED BY <3>1 DEF m
    <2>3. k - h = i
        BY <2>1
    <2>4. x = a \o p
        <3>1. k >= Len(a)
            BY <1>1, <1>4
        <3>2. k >= Len(a) => SubSeq(a \o c, 1, k) = a \o SubSeq(c, 1, k - Len(a))
            BY Foremost, Zenon
        <3> QED BY <3>1, <3>2, Zenon
    <2> HIDE DEF i, h
    <2>5. p \in Seq(Bytes) /\ SubSeq(c, i + 1, Len(c)) \in Seq(Bytes)
          /\ Len(SubSeq(c, i + 1, Len(c))) = m - i /\ p \o SubSeq(c, i + 1, Len(c)) = c
        BY <2>2, Parted
    <2>6. c1 = SubSeq(c, i + 1, Len(c))
        BY <2>3 DEF h, LowLeft
    <2>7. a1 = << >>
        <3>1. a1 = SubSeq(a, l + 1, l)
            BY <2>1 DEF h, HighLeft
        <3>2. l + 1 \in Int /\ l \in Int /\ l < l + 1
            BY <1>1
        <3> HIDE DEF l
        <3> QED BY <3>1, <3>2, SubSeqEmpty
    <2> HIDE DEF p, x
    <2>8. x \in Seq(Bytes) /\ x \o << >> = x /\ << >> \in Seq(Bytes)
        <3>1. x \in Seq(Bytes)
            BY <2>4, <2>5, Joined
        <3> QED BY <3>1, ConcatEmptySeq
    <2>9. Len(a1) + Len(c1) = l + m - k
        <3>1. Len(a1) = 0
            <4>1. Len(<< >>) = 0
                OBVIOUS
            <4> QED BY <2>7, <4>1, Zenon
        <3>2. Len(c1) = m - i /\ i = k - l
            BY <2>5, <2>6 DEF i
        <3> HIDE DEF l, m
        <3>3. 0 + (m - i) = l + m - k
            BY <1>1, <3>2
        <3> QED BY <3>1, <3>2, <3>3
    <2> QED BY <2>4, <2>5, <2>6, <2>7, <2>8, <2>9 DEF x
<1> QED BY <1>2, <1>3, <1>4

\* raise_uncomplete moves the rest of the packet that was begun.
LEMMA Raise ==
    ASSUME NEW e \in Seq(Bytes), NEW d \in Seq(Bytes), Blocks(e \o d), Uncomplete(d)
    PROVE  LET r == Size - d[1].b + 1
               f == SubSeq(d, r + 1, Len(d))
           IN  /\ SubSeq(d, 1, r) \in Seq(Bytes) /\ f \in Seq(Bytes)
               /\ Len(SubSeq(d, 1, r)) + Len(f) = Len(d)
               /\ SubSeq(d, 1, r) \o f = d
               /\ f # << >> => f[1].b = 1
<1> DEFINE c == e \o d
           i == Len(e)
           m == Len(d)
           b == d[1].b
           r == Size - d[1].b + 1
           f == SubSeq(d, r + 1, Len(d))
<1>1. c \in Seq(Bytes) /\ DOMAIN c = 1..i + m /\ Len(c) = i + m
      /\ \A j \in 1..m : c[i + j] = d[j]
    BY Joined
<1>2. i \in Nat /\ m \in Nat /\ Blocks(c)
    OBVIOUS
<1>3. m # 0
    BY DEF Uncomplete
<1> HIDE DEF c, i, m
<1>4. 1 \in 1..m /\ i + 1 \in 1..i + m
    BY <1>2, <1>3
<1>5. c[i + 1] = d[1] /\ i + 1 \in DOMAIN c
    BY <1>1, <1>4
<1>6. /\ (i + 1) - c[i + 1].b + Size <= Len(c)
      /\ \A j \in 1..Size : c[(i + 1) - c[i + 1].b + j] = Mate(c[i + 1], j)
    BY <1>1, <1>2, <1>5, BlocksFull
<1>7. c[i + 1].b \in 1..Size /\ Size \in Nat \ {0} /\ \A j \in 1..Size : Mate(c[i + 1], j).b = j
    BY <1>1, <1>5, ByteParts
<1>8. /\ (i + 1) - b + Size <= i + m
      /\ \A j \in 1..Size : c[(i + 1) - b + j] = Mate(c[i + 1], j)
    BY <1>1, <1>5, <1>6
<1>9. b \in 1..Size /\ r = Size - b + 1
    BY <1>5, <1>7
<1>10. Size \in Nat /\ Size >= 1
    BY <1>7
<1> HIDE DEF b, r
<1>11. b \in Nat /\ b <= Size /\ b >= 1
    BY <1>9, <1>10
<1>12. r \in Nat /\ r >= 1 /\ r <= m
    BY <1>2, <1>8, <1>9, <1>10, <1>11
<1>13. r \in 0..Len(d)
    BY <1>12 DEF m
<1>14. /\ SubSeq(d, 1, r) \in Seq(Bytes) /\ f \in Seq(Bytes)
       /\ Len(SubSeq(d, 1, r)) = r /\ Len(f) = m - r
       /\ SubSeq(d, 1, r) \o f = d
       /\ \A j \in 1..(m - r) : f[j] = d[r + j]
    BY <1>13, Parted DEF m
<1> HIDE DEF f
<1>15. r + (m - r) = m
    BY <1>2, <1>12
<1>16. ASSUME f # << >> PROVE f[1].b = 1
    <2>1. Len(f) # 0 /\ Len(f) \in Nat
        BY <1>14, <1>16
    <2>2. m - r # 0 /\ m - r \in Nat
        BY <1>14, <2>1
    <2>3. 1 \in 1..(m - r) /\ r + 1 \in 1..m
        BY <1>2, <1>12, <2>2
    <2> DEFINE o == i + r
    <2>4. i + (r + 1) = o + 1 /\ o = (i + 1) - b + Size /\ o \in 1..(i + m) - 1
        <3>1. i + (r + 1) = o + 1
            BY <1>2, <1>12
        <3>2. o = (i + 1) - b + Size
            BY <1>2, <1>9, <1>10, <1>11
        <3>3. o \in 1..(i + m) - 1
            BY <1>2, <1>12, <2>2
        <3> QED BY <3>1, <3>2, <3>3
    <2> HIDE DEF o
    <2>5. f[1] = d[r + 1] /\ d[r + 1] = c[o + 1]
        <3>1. f[1] = d[r + 1]
            BY <1>14, <2>3
        <3>2. c[i + (r + 1)] = d[r + 1]
            BY <1>1, <2>3
        <3> QED BY <2>4, <3>1, <3>2
    <2>6. c[o].b = Size
        <3>1. Size \in 1..Size
            BY <1>10
        <3>2. c[(i + 1) - b + Size] = Mate(c[i + 1], Size) /\ Mate(c[i + 1], Size).b = Size
            BY <1>7, <1>8, <3>1
        <3> QED BY <2>4, <3>2
    <2>7. o \in 1..(Len(c) - 1)
        BY <1>1, <2>4
    <2>8. Pieces(c)
        BY <1>2 DEF Blocks
    <2>9. c[o + 1].b = 1
        BY <1>1, <2>6, <2>7, <2>8, Boundary
    <2> QED BY <2>5, <2>9
<1>17. /\ SubSeq(d, 1, r) \in Seq(Bytes) /\ f \in Seq(Bytes)
       /\ Len(SubSeq(d, 1, r)) + Len(f) = Len(d)
       /\ SubSeq(d, 1, r) \o f = d
       /\ f # << >> => f[1].b = 1
    BY <1>14, <1>15, <1>16 DEF m
<1> QED BY <1>17 DEF r, f

\* send_buffer keeps the packets whole and in order.
LEMMA FlushFlow ==
    ASSUME NEW s, DOMAIN s = SockFields, Lists(s), NEW w \in Seq(Bytes), Flow(s, w),
           NEW k \in 0..Len(s.high) + Len(s.low)
    PROVE  LET f == Flushed(s, k)
               x == w \o SubSeq(Buffered(s), 1, k)
           IN  /\ x \in Seq(Bytes) /\ Pieces(x) /\ Rising(x)
               /\ DOMAIN f = SockFields /\ f.type = s.type /\ f.id = s.id
               /\ f.high \in Seq(Bytes) /\ f.low \in Seq(Bytes)
               /\ Blocks(f.low) /\ OnlyLow(f.low) /\ Flow(f, x)
               /\ \A y : Below(w \o s.high, y) /\ Below(s.low, y) =>
                     Below(x \o f.high, y) /\ Below(f.low, y)
<1> DEFINE a == s.high
           c == s.low
           a1 == HighLeft(a, k)
           c1 == LowLeft(a, c, k)
           g == SubSeq(a \o c, 1, k)
           x == w \o g
           t == [s EXCEPT !.high = a1, !.wb_size = s.wb_size - k, !.low = c1]
           f == Flushed(s, k)
<1>1. /\ a \in Seq(Bytes) /\ c \in Seq(Bytes) /\ Blocks(c) /\ OnlyLow(c)
      /\ Blocks(w \o a) /\ Rising(w \o a) /\ Rising(c) /\ Before(w \o a, c)
      /\ s.wb_size = Len(a) + Len(c)
    BY DEF Lists, Flow
<1>2. k \in 0..Len(a) + Len(c)
    OBVIOUS
<1>3. f = Raised(t)
    BY DEF Flushed, OfHigh, HighLeft, LowLeft
<1>4. DOMAIN t = SockFields /\ t.type = s.type /\ t.id = s.id /\ t.high = a1 /\ t.low = c1
      /\ t.wb_size = s.wb_size - k
    BY DEF SockFields
<1>5. Buffered(s) = a \o c
    BY DEF Buffered
<1> HIDE DEF a, c, t, f
<1>6. /\ g \in Seq(Bytes) /\ a1 \in Seq(Bytes) /\ c1 \in Seq(Bytes)
      /\ Len(a1) + Len(c1) = Len(a) + Len(c) - k
      /\ \E e \in Seq(Bytes) : c = e \o c1 /\ g \o a1 = a \o e /\ (a1 = << >> \/ e = << >>)
    <2>1. a \in Seq(Bytes) /\ c \in Seq(Bytes)
        BY <1>1
    <2> QED BY <1>2, <2>1, Left
<1> HIDE DEF a1, c1, g
<1>26. \A v \in Seq(Bytes) : (w \o a) \o v = w \o (a \o v)
    <2>1. a \in Seq(Bytes)
        BY <1>1
    <2> QED BY <2>1, Chained
<1>27. \A v \in Seq(Bytes) : (w \o g) \o v = w \o (g \o v)
    <2>1. g \in Seq(Bytes)
        BY <1>6
    <2> QED BY <2>1, Chained
<1>7. PICK e \in Seq(Bytes) : c = e \o c1 /\ g \o a1 = a \o e /\ (a1 = << >> \/ e = << >>)
    BY <1>6
<1>8. x \in Seq(Bytes)
    BY <1>6, Joined
<1>9. \E a2 \in Seq(Bytes), c2 \in Seq(Bytes), d \in Seq(Bytes) :
         /\ f.high = a2 /\ f.low = c2 /\ Len(a2) + Len(c2) = Len(a1) + Len(c1)
         /\ c = d \o c2 /\ g \o a2 = a \o d
         /\ c2 # << >> => c2[1].b = 1
         /\ DOMAIN f = SockFields /\ f.type = s.type /\ f.id = s.id /\ f.wb_size = t.wb_size
    <2>1. CASE a1 = << >> /\ Uncomplete(c1)
        <3> DEFINE r == Size - c1[1].b + 1
                   a2 == SubSeq(c1, 1, r)
                   c2 == SubSeq(c1, r + 1, Len(c1))
        <3>1. /\ a2 \in Seq(Bytes) /\ c2 \in Seq(Bytes)
              /\ Len(a2) + Len(c2) = Len(c1)
              /\ a2 \o c2 = c1
              /\ c2 # << >> => c2[1].b = 1
            BY <1>1, <1>6, <1>7, <2>1, Raise
        <3>2. f = [t EXCEPT !.high = a2, !.low = c2]
            BY <1>3, <1>4, <2>1 DEF Raised
        <3> HIDE DEF a2, c2
        <3>3. /\ f.high = a2 /\ f.low = c2 /\ f.wb_size = t.wb_size
              /\ DOMAIN f = SockFields /\ f.type = s.type /\ f.id = s.id
            BY <1>4, <3>2 DEF SockFields
        <3>4. Len(a1) = 0 /\ Len(c1) \in Nat
            BY <1>6, <2>1
        <3>5. Len(a2) + Len(c2) = Len(a1) + Len(c1)
            BY <3>1, <3>4
        <3>6. e \o a2 \in Seq(Bytes) /\ c = (e \o a2) \o c2
            <4>1. c = e \o (a2 \o c2)
                BY <1>7, <3>1
            <4>2. (e \o a2) \o c2 = e \o (a2 \o c2)
                BY <3>1, Chained
            <4> QED BY <3>1, <4>1, <4>2, Joined
        <3>7. g \o a2 = a \o (e \o a2)
            <4>1. g = a \o e
                BY <1>6, <1>7, <2>1, ConcatEmptySeq
            <4>2. (a \o e) \o a2 = a \o (e \o a2)
                <5>1. a \in Seq(Bytes) /\ e \in Seq(Bytes) /\ a2 \in Seq(Bytes)
                    BY <1>1, <3>1
                <5> QED BY <5>1, Chained, Zenon
            <4> QED BY <4>1, <4>2
        <3> QED BY <3>1, <3>3, <3>5, <3>6, <3>7
    <2>2. CASE ~(a1 = << >> /\ Uncomplete(c1))
        <3>1. f = t
            BY <1>3, <1>4, <2>2 DEF Raised
        <3>2. c1 # << >> => c1[1].b = 1
            <4>1. CASE a1 = << >>
                BY <2>2, <4>1 DEF Uncomplete
            <4>2. CASE e = << >>
                <5>1. c = c1
                    BY <1>6, <1>7, <4>2, ConcatEmptySeq
                <5> QED BY <1>1, <5>1, BlocksBegin
            <4> QED BY <1>7, <4>1, <4>2
        <3> QED BY <1>4, <1>6, <1>7, <3>1, <3>2
    <2> QED BY <2>1, <2>2
<1>10. PICK a2 \in Seq(Bytes), c2 \in Seq(Bytes), d \in Seq(Bytes) :
         /\ f.high = a2 /\ f.low = c2 /\ Len(a2) + Len(c2) = Len(a1) + Len(c1)
         /\ c = d \o c2 /\ g \o a2 = a \o d
         /\ c2 # << >> => c2[1].b = 1
         /\ DOMAIN f = SockFields /\ f.type = s.type /\ f.id = s.id /\ f.wb_size = t.wb_size
    BY <1>9
<1>11. x \o a2 = (w \o a) \o d /\ w \o a \in Seq(Bytes)
    <2>1. x \o a2 = w \o (g \o a2)
        BY <1>27, Zenon
    <2>2. w \o (a \o d) = (w \o a) \o d
        BY <1>26, Zenon
    <2> QED BY <1>1, <1>10, <2>1, <2>2, Joined
<1> HIDE DEF x
<1>12. Blocks(d) /\ Blocks(c2)
    BY <1>1, <1>10, BlocksParted
<1>13. Blocks(x \o a2)
    BY <1>1, <1>11, <1>12, BlocksJoined
<1>14. Rising(d) /\ Rising(c2) /\ Before(d, c2)
    BY <1>1, <1>10, JoinedRises
<1>15. Before(w \o a, d) /\ Before(w \o a, c2)
    BY <1>1, <1>10, JoinedAll
<1>16. Rising(x \o a2)
    BY <1>1, <1>11, <1>14, <1>15, JoinedRises
<1>17. Before(x \o a2, c2)
    <2> DEFINE y == w \o a
    <2>1. /\ y \in Seq(Bytes) /\ d \in Seq(Bytes) /\ Before(y, c2) /\ Before(d, c2)
          /\ x \o a2 = y \o d
        BY <1>10, <1>11, <1>14, <1>15
    <2> HIDE DEF y
    <2>2. Before(y \o d, c2)
        BY <2>1, JoinedAll
    <2> QED BY <2>1, <2>2
<1>18. OnlyLow(c2)
    BY <1>1, <1>10, JoinedAll
<1>19. Pieces(x) /\ Rising(x)
    <2>1. Pieces(x \o a2)
        BY <1>13 DEF Blocks
    <2>2. Pieces(x)
        BY <1>8, <1>10, <2>1, PiecesFront
    <2> QED BY <1>8, <1>10, <1>16, <2>2, JoinedRises
<1>20. ASSUME NEW y, Below(w \o a, y), Below(c, y) PROVE Below(x \o a2, y) /\ Below(c2, y)
    <2>1. Below(d, y) /\ Below(c2, y)
        BY <1>10, <1>20, JoinedAll
    <2> QED BY <1>11, <1>20, <2>1, JoinedAll
<1>21. f.wb_size = Len(a2) + Len(c2)
    <2>1. f.wb_size = Len(a) + Len(c) - k
        <3>1. f.wb_size = t.wb_size /\ t.wb_size = s.wb_size - k
            BY <1>4, <1>10, Zenon
        <3>2. s.wb_size = Len(a) + Len(c)
            BY <1>1, Zenon
        <3>3. (Len(a) + Len(c)) - k = Len(a) + Len(c) - k
            <4>1. Len(a) \in Nat /\ Len(c) \in Nat
                BY <1>1
            <4>2. k \in Int
                OBVIOUS
            <4> DEFINE i == Len(a)
                       j == Len(c)
            <4>3. i \in Nat /\ j \in Nat
                BY <4>1
            <4> HIDE DEF i, j
            <4>4. (i + j) - k = i + j - k
                BY <4>2, <4>3
            <4> QED BY <4>4 DEF i, j
        <3>4. f.wb_size = (Len(a) + Len(c)) - k
            BY <3>1, <3>2, Zenon
        <3> QED BY <3>3, <3>4, Zenon
    <2> QED BY <1>6, <1>10, <2>1, Zenon
<1>22. Flow(f, x)
    BY <1>10, <1>13, <1>14, <1>16, <1>17, <1>21 DEF Flow
<1>23. x = w \o SubSeq(Buffered(s), 1, k)
    BY <1>5 DEF x, g
<1>24. /\ x \in Seq(Bytes) /\ Pieces(x) /\ Rising(x)
       /\ DOMAIN f = SockFields /\ f.type = s.type /\ f.id = s.id
       /\ f.high \in Seq(Bytes) /\ f.low \in Seq(Bytes)
       /\ Blocks(f.low) /\ OnlyLow(f.low) /\ Flow(f, x)
    BY <1>8, <1>10, <1>12, <1>18, <1>19, <1>22
<1>25. \A y : Below(w \o s.high, y) /\ Below(s.low, y) => Below(x \o f.high, y) /\ Below(f.low, y)
    BY <1>10, <1>20 DEF a, c
<1> QED BY <1>23, <1>24, <1>25 DEF f

\* What append_sendbuffer keeps of a packet of which n bytes were written.
Remains(q, n) == SubSeq(q, n + 1, Size)

\* A socket p with the state of s whose peer got w, now x: packets are whole
\* and in order, and those that are new have the number n.
Carried(s, w, p, x, n) ==
    /\ DOMAIN p = SockFields /\ p.type = s.type /\ p.id = s.id
    /\ Lists(p) /\ Flow(p, x)
    /\ x \in Seq(Bytes) /\ Pieces(x) /\ Rising(x)
    /\ \A y \in Int : Below(w \o s.high, y) /\ Below(s.low, y) /\ n < y =>
          Below(x \o p.high, y) /\ Below(p.low, y)

\* The front of whole packets.
LEMMA FlowFront ==
    ASSUME NEW s, Lists(s), NEW x \in Seq(Bytes), Flow(s, x)
    PROVE  Pieces(x) /\ Rising(x)
<1>1. s.high \in Seq(Bytes) /\ Pieces(x \o s.high) /\ Rising(x \o s.high)
    BY DEF Lists, Flow, Blocks
<1>2. Pieces(x)
    BY <1>1, PiecesFront
<1> QED BY <1>1, <1>2, JoinedRises

\* An empty list.
LEMMA Nothing ==
    /\ << >> \in Seq(Bytes) /\ Len(<< >>) = 0
    /\ Blocks(<< >>) /\ Rising(<< >>) /\ OnlyLow(<< >>)
    /\ \A q : Before(q, << >>)
    /\ \A y : Below(<< >>, y)
<1>1. << >> \in Seq(Bytes) /\ Len(<< >>) = 0 /\ DOMAIN << >> = {}
    OBVIOUS
<1> QED BY <1>1 DEF Blocks, Pieces, Rising, OnlyLow, Before, Below

\* send_socket writes a packet at once, as far as the kernel takes it.
LEMMA SendDirect ==
    ASSUME NEW s, DOMAIN s = SockFields, Lists(s), NEW w \in Seq(Bytes), Flow(s, w),
           s.high = << >>, s.low = << >>,
           NEW n \in Int, NEW l \in BOOLEAN, Below(w, n), NEW i \in 0..Size
    PROVE  Carried(s, w, Appended(s, "high", Packet(n, l), i), w \o SubSeq(Packet(n, l), 1, i), n)
<1> DEFINE P == Packet(n, l)
           g == SubSeq(P, 1, i)
           t == Remains(P, i)
           p == Appended(s, "high", P, i)
           x == w \o g
<1>1. /\ P \in Seq(Bytes) /\ Len(P) = Size /\ Blocks(P) /\ Rising(P)
      /\ \A y \in Int : n < y => Below(P, y)
      /\ \A q \in Seq(Bytes) : Below(q, n) => Before(q, P)
    BY PacketBytes
<1> HIDE DEF P
<1>2. p.high = s.high \o t /\ p.low = s.low /\ p.wb_size = s.wb_size + Size - i
    BY DEF Appended, SockFields, Remains
<1>3. DOMAIN p = SockFields /\ p.type = s.type /\ p.id = s.id
    BY AppendedSocket
<1> HIDE DEF p
<1>4. i \in 0..Len(P) /\ t = SubSeq(P, i + 1, Len(P))
    BY <1>1 DEF Remains
<1>5. /\ g \in Seq(Bytes) /\ t \in Seq(Bytes) /\ Len(t) = Len(P) - i
      /\ g \o t = P
    BY <1>1, <1>4, Parted
<1> HIDE DEF g, t
<1>6. p.high = t /\ p.low = << >>
    BY <1>2, <1>5, ConcatEmptySeq
<1>7. x \in Seq(Bytes) /\ x \o t = w \o P
    <2>1. (w \o g) \o t = w \o (g \o t)
        BY <1>5, Chained
    <2> QED BY <1>5, <2>1, Joined
<1>8. w \o s.high = w
    BY ConcatEmptySeq
<1>9. Blocks(w) /\ Rising(w) /\ s.wb_size = 0
    <2>1. Len(s.high) = 0 /\ Len(s.low) = 0
        OBVIOUS
    <2> QED BY <1>8, <2>1 DEF Flow
<1>10. Blocks(w \o P) /\ Rising(w \o P)
    BY <1>1, <1>9, BlocksJoined, JoinedRises
<1> HIDE DEF x
<1>11. p.wb_size = Len(p.high) + Len(p.low)
    <2>1. Len(p.high) = Size - i /\ Len(p.low) = 0
        BY <1>1, <1>5, <1>6, Nothing
    <2>2. p.wb_size = 0 + Size - i
        BY <1>2, <1>9
    <2>3. 0 + Size - i = (Size - i) + 0
        BY SocketAssumption
    <2> QED BY <2>1, <2>2, <2>3, Zenon
<1>12. Flow(p, x)
    BY <1>6, <1>7, <1>10, <1>11, Nothing DEF Flow
<1>13. Lists(p)
    BY <1>3, <1>5, <1>6, Nothing DEF Lists
<1>14. Pieces(x) /\ Rising(x)
    BY <1>7, <1>12, <1>13, FlowFront
<1>15. ASSUME NEW y \in Int, Below(w \o s.high, y), n < y
       PROVE  Below(x \o p.high, y) /\ Below(p.low, y)
    <2>1. Below(w, y) /\ Below(P, y)
        BY <1>1, <1>8, <1>15
    <2>2. Below(w \o P, y)
        BY <1>1, <2>1, JoinedAll
    <2> QED BY <1>6, <1>7, <2>2, Nothing
<1>16. Carried(s, w, p, x, n)
    BY <1>3, <1>7, <1>12, <1>13, <1>14, <1>15 DEF Carried
<1> QED BY <1>16 DEF p, x, g, P

\* A packet of high priority is buffered behind those of high priority.
LEMMA SendHigh ==
    ASSUME NEW s, DOMAIN s = SockFields, Lists(s), NEW w \in Seq(Bytes), Flow(s, w),
           NEW n \in Int, Below(w \o s.high, n)
    PROVE  Carried(s, w, Appended(s, "high", Packet(n, FALSE), 0), w, n)
<1> DEFINE P == Packet(n, FALSE)
           p == Appended(s, "high", P, 0)
           a == s.high
           c == s.low
<1>1. /\ P \in Seq(Bytes) /\ Len(P) = Size /\ Blocks(P) /\ Rising(P)
      /\ \A y \in Int : n < y => Below(P, y)
      /\ \A q \in Seq(Bytes) : Below(q, n) => Before(q, P)
      /\ \A q \in Seq(Bytes) : OnlyLow(q) => Before(P, q)
    BY PacketBytes
<1> HIDE DEF P
<1>2. /\ a \in Seq(Bytes) /\ c \in Seq(Bytes) /\ Blocks(c) /\ OnlyLow(c)
      /\ Blocks(w \o a) /\ Rising(w \o a) /\ Rising(c) /\ Before(w \o a, c)
      /\ s.wb_size = Len(a) + Len(c) /\ w \o a \in Seq(Bytes)
    BY Joined DEF Lists, Flow
<1>3. p.high = a \o Remains(P, 0) /\ p.low = c /\ p.wb_size = s.wb_size + Size - 0
    BY DEF Appended, SockFields, Remains
<1>4. DOMAIN p = SockFields /\ p.type = s.type /\ p.id = s.id
    BY AppendedSocket
<1> HIDE DEF p
<1>5. Remains(P, 0) = P
    BY <1>1, SubSeqFull DEF Remains
<1>6. p.high = a \o P /\ p.high \in Seq(Bytes) /\ Len(a \o P) = Len(a) + Len(P)
    <2>1. p.high = a \o P
        BY <1>3, <1>5, Zenon
    <2>0. a \in Seq(Bytes) /\ P \in Seq(Bytes)
        BY <1>1, <1>2
    <2>2. a \o P \in Seq(Bytes) /\ Len(a \o P) = Len(a) + Len(P)
        BY <2>0, Joined
    <2> QED BY <2>1, <2>2, Zenon
<1>7. w \o p.high = (w \o a) \o P
    <2>1. (w \o a) \o P = w \o (a \o P)
        BY <1>1, <1>2, Chained
    <2> QED BY <1>6, <2>1, Zenon
<1>8. Blocks((w \o a) \o P) /\ Rising((w \o a) \o P)
    BY <1>1, <1>2, BlocksJoined, JoinedRises
<1>9. Before((w \o a) \o P, c)
    BY <1>1, <1>2, JoinedAll
<1>10. p.wb_size = Len(p.high) + Len(p.low)
    <2> DEFINE i == Len(a)
               j == Len(c)
    <2>1. i \in Nat /\ j \in Nat /\ Size \in Nat
        BY <1>2, SocketAssumption
    <2>2. p.wb_size = (i + j) + Size - 0
        BY <1>2, <1>3, Zenon
    <2>3. Len(p.high) = i + Size /\ Len(p.low) = j
        BY <1>1, <1>3, <1>6, Zenon
    <2> HIDE DEF i, j
    <2>4. (i + j) + Size - 0 = (i + Size) + j
        BY <2>1
    <2> QED BY <2>2, <2>3, <2>4, Zenon
<1>11. Flow(p, w)
    BY <1>2, <1>3, <1>7, <1>8, <1>9, <1>10 DEF Flow
<1>12. Lists(p)
    BY <1>2, <1>3, <1>4, <1>6 DEF Lists
<1>13. Pieces(w) /\ Rising(w)
    BY <1>11, <1>12, FlowFront
<1>14. ASSUME NEW y \in Int, Below(w \o a, y), Below(c, y), n < y
       PROVE  Below(w \o p.high, y) /\ Below(p.low, y)
    <2>1. Below(P, y)
        BY <1>1, <1>14
    <2>2. Below((w \o a) \o P, y)
        BY <1>1, <1>2, <1>14, <2>1, JoinedAll
    <2> QED BY <1>3, <1>7, <1>14, <2>2
<1>15. Carried(s, w, p, w, n)
    BY <1>4, <1>11, <1>12, <1>13, <1>14 DEF Carried
<1> QED BY <1>15 DEF p, P

\* A packet of low priority is buffered last.
LEMMA SendLow ==
    ASSUME NEW s, DOMAIN s = SockFields, Lists(s), NEW w \in Seq(Bytes), Flow(s, w),
           NEW n \in Int, Below(w \o s.high, n), Below(s.low, n)
    PROVE  Carried(s, w, Appended(s, "low", Packet(n, TRUE), 0), w, n)
<1> DEFINE P == Packet(n, TRUE)
           p == Appended(s, "low", P, 0)
           a == s.high
           c == s.low
<1>1. /\ P \in Seq(Bytes) /\ Len(P) = Size /\ Blocks(P) /\ Rising(P) /\ OnlyLow(P)
      /\ \A y \in Int : n < y => Below(P, y)
      /\ \A q \in Seq(Bytes) : Below(q, n) => Before(q, P)
    BY PacketBytes
<1> HIDE DEF P
<1>2. /\ a \in Seq(Bytes) /\ c \in Seq(Bytes) /\ Blocks(c) /\ OnlyLow(c)
      /\ Blocks(w \o a) /\ Rising(w \o a) /\ Rising(c) /\ Before(w \o a, c)
      /\ s.wb_size = Len(a) + Len(c) /\ w \o a \in Seq(Bytes)
    BY Joined DEF Lists, Flow
<1>3. p.low = c \o Remains(P, 0) /\ p.high = a /\ p.wb_size = s.wb_size + Size - 0
    BY DEF Appended, SockFields, Remains
<1>4. DOMAIN p = SockFields /\ p.type = s.type /\ p.id = s.id
    BY AppendedSocket
<1> HIDE DEF p
<1>5. Remains(P, 0) = P
    BY <1>1, SubSeqFull DEF Remains
<1>6. p.low = c \o P /\ p.low \in Seq(Bytes) /\ Len(c \o P) = Len(c) + Len(P)
    <2>1. p.low = c \o P
        BY <1>3, <1>5, Zenon
    <2>0. c \in Seq(Bytes) /\ P \in Seq(Bytes)
        BY <1>1, <1>2
    <2>2. c \o P \in Seq(Bytes) /\ Len(c \o P) = Len(c) + Len(P)
        BY <2>0, Joined
    <2> QED BY <2>1, <2>2, Zenon
<1>7. Before(w \o a, P) /\ Before(c, P)
    BY <1>1, <1>2
<1>8. Blocks(p.low) /\ Rising(p.low) /\ OnlyLow(p.low)
    BY <1>1, <1>2, <1>6, <1>7, BlocksJoined, JoinedRises, JoinedAll
<1>9. Before(w \o a, p.low)
    BY <1>1, <1>2, <1>6, <1>7, JoinedAll
<1>10. p.wb_size = Len(p.high) + Len(p.low)
    <2> DEFINE i == Len(a)
               j == Len(c)
    <2>1. i \in Nat /\ j \in Nat /\ Size \in Nat
        BY <1>2, SocketAssumption
    <2>2. p.wb_size = (i + j) + Size - 0
        BY <1>2, <1>3, Zenon
    <2>3. Len(p.high) = i /\ Len(p.low) = j + Size
        BY <1>1, <1>3, <1>6, Zenon
    <2> HIDE DEF i, j
    <2>4. (i + j) + Size - 0 = i + (j + Size)
        BY <2>1
    <2> QED BY <2>2, <2>3, <2>4, Zenon
<1>11. Flow(p, w)
    BY <1>2, <1>3, <1>8, <1>9, <1>10 DEF Flow
<1>12. Lists(p)
    BY <1>2, <1>3, <1>4, <1>6, <1>8 DEF Lists
<1>13. Pieces(w) /\ Rising(w)
    BY <1>11, <1>12, FlowFront
<1>14. ASSUME NEW y \in Int, Below(w \o a, y), Below(c, y), n < y
       PROVE  Below(w \o p.high, y) /\ Below(p.low, y)
    <2>1. Below(P, y)
        BY <1>1, <1>14
    <2>2. Below(c \o P, y)
        BY <1>1, <1>2, <1>14, <2>1, JoinedAll
    <2> QED BY <1>3, <1>6, <1>14, <2>2
<1>15. Carried(s, w, p, w, n)
    BY <1>4, <1>11, <1>12, <1>13, <1>14 DEF Carried
<1> QED BY <1>15 DEF p, P

\* A step that keeps the order of the packets in the pipe, and opens only
\* what was to be opened or was not heard of.
Onward ==
    /\ alloc_id' <= MaxId /\ Numbers'
    /\ \A y \in Coming' : y \in Int /\ \E z \in Coming : z \in Int /\ z <= y
    /\ \A j \in DOMAIN pipe' : pipe'[j].c \in Openings =>
          \/ pipe'[j].id \notin known
          \/ \E k \in DOMAIN pipe : pipe[k].c \in Openings /\ pipe[k].id = pipe'[j].id

\* Numbers less than z are less than a greater one.
LEMMA BelowMore ==
    ASSUME NEW q \in Seq(Bytes), NEW z \in Int, NEW y \in Int, z <= y, Below(q, z)
    PROVE  Below(q, y)
<1> SUFFICES ASSUME NEW j \in DOMAIN q PROVE q[j].n < y
    BY DEF Below
<1>1. q[j].n \in Int /\ q[j].n < z
    BY ByteParts DEF Below
<1> QED BY <1>1

\* A socket is in its own slot, and what its peer got is of its own.
LEMMA OwnWire ==
    ASSUME SocketInv, PacketInv, NEW k \in Slots, slot[k].type \notin Idle
    PROVE  /\ slot[k].id \in Ids /\ slot[k].id \in known /\ HASH_ID(slot[k].id) = k
           /\ wire[slot[k].id] \in Seq(Bytes)
           /\ \A j \in DOMAIN pipe : pipe[j].c \in Openings => pipe[j].id # slot[k].id
<1>1. Shape /\ OpeningsHeld /\ Lists(slot[k]) /\ Wires
    BY DEF SocketInv, PacketInv, Flows
<1>2. slot[k].id \in known /\ slot[k].id # 0 /\ HASH_ID(slot[k].id) = k
    BY <1>1, IdsHash DEF Shape
<1>3. slot[k].id \in Ids
    BY <1>1, <1>2 DEF Lists
<1>4. wire[slot[k].id] \in Seq(Bytes)
    BY <1>1, <1>3 DEF Wires
<1>5. ASSUME NEW j \in DOMAIN pipe, pipe[j].c \in Openings PROVE pipe[j].id # slot[k].id
    <2>1. slot[HASH_ID(pipe[j].id)].type = "RESERVE"
        BY <1>1, <1>5 DEF OpeningsHeld
    <2> QED BY <1>2, <2>1 DEF Idle
<1> QED BY <1>2, <1>3, <1>4, <1>5

\* One slot changes, and at most what the peer of its socket got.
LEMMA PacketKept ==
    ASSUME SocketInv, PacketInv, Onward, known \subseteq known',
           NEW i \in Slots, NEW p, slot' = [slot EXCEPT ![i] = p], Lists(p),
           wire' \in [Ids -> Seq(Bytes)],
           \A d \in Ids : \/ wire'[d] = wire[d]
                          \/ /\ slot[i].type \notin Idle /\ d = slot[i].id
                             /\ Pieces(wire'[d]) /\ Rising(wire'[d]),
           p.type \notin Idle => /\ Flow(p, wire'[p.id])
                                 /\ \A y \in Coming' : /\ Below(wire'[p.id] \o p.high, y)
                                                       /\ Below(p.low, y)
    PROVE  PacketInv'
<1>1. Shape /\ OpeningsHeld /\ Wires /\ Flows
    BY DEF SocketInv, PacketInv
<1>2. \A k \in Slots : slot'[k] = IF k = i THEN p ELSE slot[k]
    BY <1>1 DEF Shape
<1>3. alloc_id' <= MaxId /\ Numbers'
    BY DEF Onward
<1>4. Wires'
    <2>1. ASSUME NEW d \in Ids PROVE Pieces(wire'[d]) /\ Rising(wire'[d])
        BY <1>1 DEF Wires
    <2>2. ASSUME NEW d \in Ids, wire'[d] # << >>
          PROVE  d \in known /\ \A j \in DOMAIN pipe : pipe[j].c \in Openings => pipe[j].id # d
        <3>1. CASE wire'[d] = wire[d]
            BY <1>1, <2>2, <3>1 DEF Wires
        <3>2. CASE slot[i].type \notin Idle /\ d = slot[i].id
            BY <3>2, OwnWire
        <3> QED BY <3>1, <3>2
    <2>3. ASSUME NEW d \in Ids, wire'[d] # << >>
          PROVE  d \in known' /\ \A j \in DOMAIN pipe' : pipe'[j].c \in Openings => pipe'[j].id # d
        <3>1. d \in known'
            BY <2>2, <2>3
        <3>2. ASSUME NEW j \in DOMAIN pipe', pipe'[j].c \in Openings PROVE pipe'[j].id # d
            <4>1. \/ pipe'[j].id \notin known
                  \/ \E k \in DOMAIN pipe : pipe[k].c \in Openings /\ pipe[k].id = pipe'[j].id
                BY <3>2 DEF Onward
            <4> QED BY <2>2, <2>3, <4>1
        <3> QED BY <3>1, <3>2
    <2> QED BY <2>1, <2>3 DEF Wires
<1>5. Flows'
    <2> SUFFICES ASSUME NEW k \in Slots
                 PROVE  /\ Lists(slot'[k])
                        /\ slot'[k].type \notin Idle =>
                             /\ Flow(slot'[k], wire'[slot'[k].id])
                             /\ \A y \in Coming' : /\ Below(wire'[slot'[k].id] \o slot'[k].high, y)
                                                   /\ Below(slot'[k].low, y)
        BY DEF Flows
    <2>1. CASE k = i
        <3>1. slot'[k] = p
            BY <1>2, <2>1
        <3> QED BY <3>1
    <2>2. CASE k # i
        <3> DEFINE s == slot[k]
                   w == wire[s.id]
        <3>1. slot'[k] = s /\ Lists(s)
            BY <1>1, <1>2, <2>2 DEF Flows
        <3>2. ASSUME s.type \notin Idle
              PROVE  /\ Flow(s, wire'[s.id])
                     /\ \A y \in Coming' : Below(wire'[s.id] \o s.high, y) /\ Below(s.low, y)
            <4>1. s.id \in Ids /\ HASH_ID(s.id) = k /\ w \in Seq(Bytes)
                BY <3>2, OwnWire
            <4>2. slot[i].type \notin Idle => HASH_ID(slot[i].id) = i
                BY OwnWire
            <4>3. wire'[s.id] = w
                <5>1. slot[i].type \notin Idle => s.id # slot[i].id
                    BY <2>2, <4>1, <4>2
                <5> QED BY <4>1, <5>1
            <4>4. Flow(s, w) /\ \A z \in Coming : Below(w \o s.high, z) /\ Below(s.low, z)
                BY <1>1, <3>2 DEF Flows
            <4>5. s.high \in Seq(Bytes) /\ s.low \in Seq(Bytes)
                BY <3>1 DEF Lists
            <4> HIDE DEF s, w
            <4>6. w \o s.high \in Seq(Bytes)
                BY <4>1, <4>5, Joined
            <4>7. ASSUME NEW y \in Coming' PROVE Below(w \o s.high, y) /\ Below(s.low, y)
                <5>1. PICK z \in Coming : z \in Int /\ z <= y
                    BY DEF Onward
                <5>2. y \in Int
                    BY DEF Onward
                <5>3. Below(w \o s.high, z) /\ Below(s.low, z)
                    BY <4>4
                <5> QED BY <4>5, <4>6, <5>1, <5>2, <5>3, BelowMore
            <4> QED BY <4>3, <4>4, <4>7
        <3> QED BY <3>1, <3>2
    <2> QED BY <2>1, <2>2
<1> QED BY <1>3, <1>4, <1>5 DEF PacketInv

\* No slot changes.
LEMMA PacketIdle ==
    ASSUME SocketInv, PacketInv, Onward, known \subseteq known', slot' = slot, wire' = wire
    PROVE  PacketInv'
<1>1. Shape /\ Wires /\ Flows
    BY DEF SocketInv, PacketInv
<1>2. 0 \in Slots
    BY SocketAssumption DEF Slots
<1> DEFINE p == slot[0]
<1>3. slot' = [slot EXCEPT ![0] = p]
    BY <1>1 DEF Shape
<1>4. Lists(p) /\ (p.type \notin Idle => /\ Flow(p, wire[p.id])
                                         /\ \A y \in Coming : Below(wire[p.id] \o p.high, y)
                                                              /\ Below(p.low, y))
    BY <1>1, <1>2 DEF Flows
<1>5. wire' \in [Ids -> Seq(Bytes)] /\ \A d \in Ids : wire'[d] = wire[d]
    BY <1>1 DEF Wires
<1>6. ASSUME p.type \notin Idle, NEW y \in Coming'
      PROVE  Below(wire'[p.id] \o p.high, y) /\ Below(p.low, y)
    <2>1. p.high \in Seq(Bytes) /\ p.low \in Seq(Bytes) /\ wire[p.id] \in Seq(Bytes)
        BY <1>2, <1>4, <1>6, OwnWire DEF Lists
    <2>2. PICK z \in Coming : z \in Int /\ z <= y
        BY DEF Onward
    <2>3. y \in Int
        BY DEF Onward
    <2>4. Below(wire[p.id] \o p.high, z) /\ Below(p.low, z)
        BY <1>4, <1>6
    <2> HIDE DEF p
    <2>5. wire[p.id] \o p.high \in Seq(Bytes)
        BY <2>1, Joined
    <2> QED BY <2>1, <2>2, <2>3, <2>4, <2>5, BelowMore
<1> HIDE DEF p
<1>7. p.type \notin Idle => /\ Flow(p, wire'[p.id])
                            /\ \A y \in Coming' : Below(wire'[p.id] \o p.high, y) /\ Below(p.low, y)
    BY <1>4, <1>6
<1> QED BY <1>2, <1>3, <1>4, <1>5, <1>7, PacketKept

\* The numbers of packets.
LEMMA Numbered ==
    ASSUME Shape, Others
    PROVE  /\ left["send"] \in Nat /\ Sent \in Int /\ Coming \subseteq Int
           /\ \A j \in DOMAIN pipe : j \in Nat /\ pipe[j] \in Cmds /\ pipe[j].x \in Int
<1>1. left["send"] \in Nat /\ MaxSend \in Nat
    BY SocketAssumption DEF Others
<1>2. Sent \in Int
    BY <1>1 DEF Sent
<1>3. \A j \in DOMAIN pipe : j \in Nat /\ pipe[j] \in Cmds
    <2>1. pipe \in Seq(Cmds)
        BY DEF Shape
    <2> QED BY <2>1
<1>4. \A j \in DOMAIN pipe : pipe[j].x \in Int
    BY <1>3 DEF Cmds
<1>5. Coming \subseteq Int
    BY <1>2, <1>4 DEF Coming, Sends
<1> QED BY <1>1, <1>2, <1>3, <1>4, <1>5

\* The pipe stays, or a command is taken: packets that are still to come
\* have greater numbers than the one that was taken.
LEMMA OnwardTaken ==
    ASSUME SocketInv, PacketInv, alloc_id' <= MaxId, left'["send"] = left["send"],
           pipe' = pipe \/ (pipe # << >> /\ pipe' = Tail(pipe))
    PROVE  /\ Onward /\ Coming' \subseteq Coming
           /\ pipe' # pipe /\ Head(pipe).c \in {"D", "P"} =>
                 /\ Head(pipe).x \in Coming
                 /\ \A y \in Coming' : Head(pipe).x < y
<1>1. Shape /\ Others /\ OpeningsHeld /\ Numbers
    BY DEF SocketInv, PacketInv
<1>2. /\ Sent \in Int /\ Coming \subseteq Int /\ Sent' = Sent
      /\ \A j \in DOMAIN pipe : j \in Nat /\ pipe[j] \in Cmds /\ pipe[j].x \in Int
    BY <1>1, Numbered DEF Sent
<1>3. \A j \in Sends : j \in DOMAIN pipe /\ pipe[j].x \in Coming /\ pipe[j].x <= Sent
                       /\ \A h \in Sends : h < j => pipe[h].x < pipe[j].x
    BY <1>1 DEF Sends, Coming, Numbers
<1>4. Sent + 1 \in Coming
    BY DEF Coming
<1>5. CASE pipe' = pipe
    <2>1. Sends' = Sends /\ Coming' = Coming
        BY <1>2, <1>5 DEF Sends, Coming
    <2>2. Numbers'
        BY <1>1, <1>2, <1>5, <2>1 DEF Numbers
    <2>3. \A y \in Coming' : y \in Int /\ \E z \in Coming : z \in Int /\ z <= y
        BY <1>2, <2>1
    <2> QED BY <1>5, <2>1, <2>2, <2>3 DEF Onward
<1>6. CASE pipe # << >> /\ pipe' = Tail(pipe)
    <2>1. /\ 1 \in DOMAIN pipe /\ Head(pipe) = pipe[1]
          /\ \A j \in DOMAIN pipe' : /\ j \in Nat /\ j + 1 \in DOMAIN pipe
                                     /\ pipe'[j] = pipe[j + 1] /\ j + 1 > 1
        BY <1>1, <1>6, Popped DEF Shape
    <2>2. \A j \in Sends' : j \in DOMAIN pipe' /\ j \in Nat /\ j + 1 \in Sends /\ pipe'[j] = pipe[j + 1]
        BY <2>1 DEF Sends
    <2>3. Coming' \subseteq Coming
        <3> SUFFICES ASSUME NEW y \in Coming' PROVE y \in Coming
            OBVIOUS
        <3>1. CASE y = Sent' + 1
            BY <1>2, <1>4, <3>1
        <3>2. CASE \E j \in Sends' : y = pipe'[j].x
            BY <1>3, <2>2, <3>2
        <3> QED BY <3>1, <3>2 DEF Coming
    <2>4. Numbers'
        <3> SUFFICES ASSUME NEW j \in Sends'
                     PROVE  pipe'[j].x <= Sent' /\ \A h \in Sends' : h < j => pipe'[h].x < pipe'[j].x
            BY DEF Numbers
        <3>1. pipe'[j].x <= Sent'
            BY <1>2, <1>3, <2>2
        <3>2. ASSUME NEW h \in Sends', h < j PROVE pipe'[h].x < pipe'[j].x
            <4>1. h + 1 < j + 1 /\ h + 1 \in Sends /\ j + 1 \in Sends
                BY <2>2, <3>2
            <4>2. pipe[h + 1].x < pipe[j + 1].x
                BY <1>3, <4>1
            <4> QED BY <2>2, <4>2
        <3> QED BY <3>1, <3>2
    <2>5. \A y \in Coming' : y \in Int /\ \E z \in Coming : z \in Int /\ z <= y
        BY <1>2, <2>3
    <2>6. \A j \in DOMAIN pipe' : pipe'[j].c \in Openings =>
             \E k \in DOMAIN pipe : pipe[k].c \in Openings /\ pipe[k].id = pipe'[j].id
        BY <2>1
    <2>7. ASSUME Head(pipe).c \in {"D", "P"}
          PROVE  Head(pipe).x \in Coming /\ \A y \in Coming' : Head(pipe).x < y
        <3>1. 1 \in Sends
            BY <2>1, <2>7 DEF Sends
        <3>2. pipe[1].x \in Coming /\ pipe[1].x <= Sent /\ pipe[1].x \in Int
            BY <1>2, <1>3, <3>1
        <3>3. ASSUME NEW y \in Coming' PROVE pipe[1].x < y
            <4>1. CASE y = Sent' + 1
                BY <1>2, <3>2, <4>1
            <4>2. CASE \E j \in Sends' : y = pipe'[j].x
                <5>1. PICK j \in Sends' : y = pipe'[j].x
                    BY <4>2
                <5>2. j + 1 \in Sends /\ 1 < j + 1 /\ y = pipe[j + 1].x
                    BY <2>1, <2>2, <5>1
                <5> QED BY <1>3, <3>1, <5>2
            <4> QED BY <4>1, <4>2 DEF Coming
        <3> QED BY <2>1, <3>2, <3>3
    <2> QED BY <2>3, <2>4, <2>5, <2>6, <2>7 DEF Onward
<1> QED BY <1>5, <1>6

\* A command more, that sends nothing or sends the next packet.
LEMMA OnwardAsked ==
    ASSUME SocketInv, PacketInv, alloc_id' <= MaxId, NEW r \in Cmds, pipe' = Append(pipe, r),
           r.c \in Openings => r.id \notin known,
           \/ r.c \notin {"D", "P"} /\ left'["send"] = left["send"]
           \/ r.x = Sent' /\ left'["send"] = left["send"] - 1
    PROVE  Onward
<1>1. Shape /\ Others /\ Numbers
    BY DEF SocketInv, PacketInv
<1>2. /\ left["send"] \in Nat /\ Sent \in Int /\ Coming \subseteq Int
      /\ \A j \in DOMAIN pipe : j \in Nat /\ pipe[j] \in Cmds /\ pipe[j].x \in Int
    BY <1>1, Numbered
<1>3. \A j \in Sends : j \in DOMAIN pipe /\ pipe[j].x \in Coming /\ pipe[j].x <= Sent
                       /\ \A h \in Sends : h < j => pipe[h].x < pipe[j].x
    BY <1>1 DEF Sends, Coming, Numbers
<1>4. Sent + 1 \in Coming
    BY DEF Coming
<1>5. PICK l \in DOMAIN pipe' :
          /\ pipe'[l] = r /\ l \notin DOMAIN pipe /\ l \in Nat
          /\ \A j \in DOMAIN pipe' : (j \in DOMAIN pipe \/ j = l) /\ j \in Nat /\ j <= l
    BY <1>1, Pushed DEF Shape
<1>6. \A j \in DOMAIN pipe : j \in DOMAIN pipe' /\ pipe'[j] = pipe[j]
    BY <1>1, Pushed DEF Shape
<1>7. \A j \in Sends' : (j \in Sends /\ pipe'[j] = pipe[j]) \/ (j = l /\ r.c \in {"D", "P"})
    BY <1>5, <1>6 DEF Sends
<1>8. /\ Sent' \in Int /\ Sent <= Sent'
      /\ r.c \in {"D", "P"} => r.x = Sent' /\ Sent' = Sent + 1
    <2>1. MaxSend \in Nat
        BY SocketAssumption
    <2>2. CASE r.c \notin {"D", "P"} /\ left'["send"] = left["send"]
        BY <1>2, <2>1, <2>2 DEF Sent
    <2>3. CASE r.x = Sent' /\ left'["send"] = left["send"] - 1
        BY <1>2, <2>1, <2>3 DEF Sent
    <2> QED BY <2>2, <2>3
<1>9. Numbers'
    <2> SUFFICES ASSUME NEW j \in Sends'
                 PROVE  pipe'[j].x <= Sent' /\ \A h \in Sends' : h < j => pipe'[h].x < pipe'[j].x
        BY DEF Numbers
    <2>1. CASE j \in Sends /\ pipe'[j] = pipe[j]
        <3>1. pipe'[j].x <= Sent'
            BY <1>2, <1>3, <1>8, <2>1
        <3>2. ASSUME NEW h \in Sends', h < j PROVE pipe'[h].x < pipe'[j].x
            <4>1. h # l
                <5>1. j \in DOMAIN pipe' /\ j \in Nat /\ j <= l /\ l \in Nat
                    BY <1>3, <1>5, <1>6, <2>1
                <5> QED BY <3>2, <5>1
            <4>2. h \in Sends /\ pipe'[h] = pipe[h]
                BY <1>7, <4>1
            <4> QED BY <1>3, <2>1, <3>2, <4>2
        <3> QED BY <3>1, <3>2
    <2>2. CASE j = l /\ r.c \in {"D", "P"}
        <3>1. pipe'[j].x = Sent' /\ Sent' = Sent + 1
            BY <1>5, <1>8, <2>2
        <3>2. ASSUME NEW h \in Sends', h < j PROVE pipe'[h].x < pipe'[j].x
            <4>1. h \in Sends /\ pipe'[h] = pipe[h]
                <5>1. h # l
                    BY <1>5, <2>2, <3>2
                <5> QED BY <1>7, <5>1
            <4>2. pipe[h].x <= Sent /\ pipe[h].x \in Int
                BY <1>2, <1>3, <4>1
            <4> QED BY <1>2, <3>1, <4>1, <4>2
        <3>3. Sent' \in Int
            BY <1>8
        <3>4. pipe'[j].x <= Sent'
            BY <3>1, <3>3
        <3> QED BY <3>2, <3>4
    <2> QED BY <1>7, <2>1, <2>2
<1>10. ASSUME NEW y \in Coming' PROVE y \in Int /\ \E z \in Coming : z \in Int /\ z <= y
    <2>1. Sent + 1 \in Int /\ Sent + 1 <= Sent' + 1 /\ Sent' + 1 \in Int
        <3> DEFINE a == Sent
                   b == Sent'
        <3>1. a \in Int /\ b \in Int /\ a <= b
            BY <1>2, <1>8
        <3> HIDE DEF a, b
        <3>2. a + 1 \in Int /\ a + 1 <= b + 1 /\ b + 1 \in Int
            BY <3>1
        <3> QED BY <3>2 DEF a, b
    <2>2. CASE y = Sent' + 1
        BY <1>4, <2>1, <2>2
    <2>3. CASE \E j \in Sends' : y = pipe'[j].x
        <3>1. PICK j \in Sends' : y = pipe'[j].x
            BY <2>3
        <3>2. CASE j \in Sends /\ pipe'[j] = pipe[j]
            <4>1. y \in Coming /\ y \in Int
                BY <1>2, <1>3, <3>1, <3>2
            <4> QED BY <4>1
        <3>3. CASE j = l /\ r.c \in {"D", "P"}
            <4>1. y = Sent + 1
                BY <1>5, <1>8, <3>1, <3>3
            <4> QED BY <1>4, <2>1, <4>1
        <3> QED BY <1>7, <3>2, <3>3
    <2> QED BY <2>2, <2>3 DEF Coming
<1>11. ASSUME NEW j \in DOMAIN pipe', pipe'[j].c \in Openings
       PROVE  \/ pipe'[j].id \notin known
              \/ \E k \in DOMAIN pipe : pipe[k].c \in Openings /\ pipe[k].id = pipe'[j].id
    <2>1. CASE j = l
        BY <1>5, <1>11, <2>1
    <2>2. CASE j \in DOMAIN pipe
        BY <1>6, <1>11, <2>2
    <2> QED BY <1>5, <2>1, <2>2
<1> QED BY <1>9, <1>10, <1>11 DEF Onward
\* What is buffered has numbers less than those to come, after the step too.
LEMMA StillBelow ==
    ASSUME SocketInv, PacketInv, Onward, NEW i \in Slots, slot[i].type \notin Idle,
           NEW y \in Coming'
    PROVE  Below(wire[slot[i].id] \o slot[i].high, y) /\ Below(slot[i].low, y)
<1> DEFINE s == slot[i]
           w == wire[s.id]
<1>1. /\ Lists(s) /\ w \in Seq(Bytes)
      /\ \A z \in Coming : Below(w \o s.high, z) /\ Below(s.low, z)
    BY OwnWire DEF PacketInv, Flows
<1>2. s.high \in Seq(Bytes) /\ s.low \in Seq(Bytes)
    BY <1>1 DEF Lists
<1> HIDE DEF s, w
<1>3. w \o s.high \in Seq(Bytes)
    BY <1>1, <1>2, Joined
<1>4. PICK z \in Coming : z \in Int /\ z <= y
    BY DEF Onward
<1>5. y \in Int
    BY DEF Onward
<1>6. Below(w \o s.high, z) /\ Below(s.low, z)
    BY <1>1
<1>7. Below(w \o s.high, y) /\ Below(s.low, y)
    BY <1>2, <1>3, <1>4, <1>5, <1>6, BelowMore
<1> QED BY <1>7 DEF s, w

\* A socket is written to, or ends.
LEMMA SocketWrites ==
    ASSUME SocketInv, PacketInv, Onward, known \subseteq known',
           NEW i \in Slots, slot[i].type \notin Idle,
           NEW p, slot' = [slot EXCEPT ![i] = p], Lists(p), p.id = slot[i].id,
           NEW x \in Seq(Bytes), Pieces(x), Rising(x), wire' = [wire EXCEPT ![slot[i].id] = x],
           p.type \notin Idle =>
              /\ Flow(p, x)
              /\ \A y \in Coming' :
                    Below(wire[slot[i].id] \o slot[i].high, y) /\ Below(slot[i].low, y) =>
                      Below(x \o p.high, y) /\ Below(p.low, y)
    PROVE  PacketInv'
<1> DEFINE d == slot[i].id
<1>1. d \in Ids
    BY OwnWire
<1>2. wire \in [Ids -> Seq(Bytes)]
    BY DEF PacketInv, Wires
<1>3. \A y \in Coming' : Below(wire[d] \o slot[i].high, y) /\ Below(slot[i].low, y)
    BY StillBelow
<1>4. p.id = d /\ wire' = [wire EXCEPT ![d] = x]
    OBVIOUS
<1>5. p.type \notin Idle => Flow(p, x) /\ \A y \in Coming' : Below(x \o p.high, y) /\ Below(p.low, y)
    BY <1>3
<1>6. /\ wire' \in [Ids -> Seq(Bytes)] /\ wire'[d] = x
      /\ \A e \in Ids : e # d => wire'[e] = wire[e]
    <2> HIDE DEF d
    <2> QED BY <1>1, <1>2, <1>4
<1>7. \A e \in Ids : \/ wire'[e] = wire[e]
                     \/ /\ slot[i].type \notin Idle /\ e = slot[i].id
                        /\ Pieces(wire'[e]) /\ Rising(wire'[e])
    <2> SUFFICES ASSUME NEW e \in Ids, e # d \/ e = d
                 PROVE  \/ wire'[e] = wire[e]
                        \/ /\ slot[i].type \notin Idle /\ e = d
                           /\ Pieces(wire'[e]) /\ Rising(wire'[e])
        OBVIOUS
    <2> HIDE DEF d
    <2> QED BY <1>6
<1>8. wire'[p.id] = x
    BY <1>4, <1>6
<1>9. p.type \notin Idle => /\ Flow(p, wire'[p.id])
                            /\ \A y \in Coming' : /\ Below(wire'[p.id] \o p.high, y)
                                                  /\ Below(p.low, y)
    BY <1>5, <1>8
<1>10. wire' \in [Ids -> Seq(Bytes)]
    BY <1>6
<1> QED BY <1>7, <1>9, <1>10, PacketKept

\* A slot without a socket, or one that has lost it.
LEMMA SlotEmpty ==
    ASSUME SocketInv, PacketInv, Onward, known \subseteq known',
           NEW i \in Slots, NEW p, slot' = [slot EXCEPT ![i] = p], Lists(p), p.type \in Idle,
           wire' = wire
    PROVE  PacketInv'
<1>1. wire' \in [Ids -> Seq(Bytes)]
    BY DEF PacketInv, Wires
<1> QED BY <1>1, PacketKept

\* The state of a socket changes, or of a slot, and not its buffers.
LEMMA SocketStays ==
    ASSUME SocketInv, PacketInv, Onward, known \subseteq known',
           NEW i \in Slots, NEW p, slot' = [slot EXCEPT ![i] = p], wire' = wire,
           p.id = slot[i].id, p.high = slot[i].high, p.low = slot[i].low,
           p.wb_size = slot[i].wb_size, p.type \in Types,
           p.type \in Idle \/ slot[i].type \notin Idle
    PROVE  PacketInv'
<1>1. Lists(p)
    BY DEF PacketInv, Flows, Lists
<1>2. CASE p.type \in Idle
    BY <1>1, <1>2, SlotEmpty
<1>3. CASE slot[i].type \notin Idle
    <2> DEFINE x == wire[slot[i].id]
    <2>1. Flow(slot[i], x) /\ Lists(slot[i]) /\ x \in Seq(Bytes)
        BY <1>3, OwnWire DEF PacketInv, Flows
    <2>2. Flow(p, x)
        BY <2>1 DEF Flow
    <2>3. Pieces(x) /\ Rising(x)
        BY <2>1, FlowFront
    <2>4. wire' = [wire EXCEPT ![slot[i].id] = x]
        BY DEF PacketInv, Wires
    <2>5. x \o p.high = wire[slot[i].id] \o slot[i].high
        OBVIOUS
    <2> HIDE DEF x
    <2> QED BY <1>1, <1>3, <2>1, <2>2, <2>3, <2>4, <2>5, SocketWrites
<1> QED BY <1>2, <1>3

\* A new socket.
LEMMA SocketBegins ==
    ASSUME SocketInv, PacketInv, Onward, known \subseteq known',
           NEW i \in Slots, NEW p, slot' = [slot EXCEPT ![i] = p], wire' = wire,
           p.id \in Ids, p.type \in Types, p.high = << >>, p.low = << >>, p.wb_size = 0,
           wire[p.id] = << >>
    PROVE  PacketInv'
<1>1. Lists(p)
    BY Nothing DEF Lists
<1>2. << >> \o p.high = << >>
    OBVIOUS
<1>3. Flow(p, << >>)
    BY <1>2, Nothing DEF Flow
<1>4. \A y \in Coming' : Below(<< >> \o p.high, y) /\ Below(p.low, y)
    BY <1>2, Nothing
<1>5. wire' \in [Ids -> Seq(Bytes)]
    BY DEF PacketInv, Wires
<1>6. wire'[p.id] = << >>
    OBVIOUS
<1>7. p.type \notin Idle => /\ Flow(p, wire'[p.id])
                            /\ \A y \in Coming' : /\ Below(wire'[p.id] \o p.high, y)
                                                  /\ Below(p.low, y)
    BY <1>3, <1>4, <1>6
<1> QED BY <1>1, <1>5, <1>7, PacketKept

\* reserve_id
LEMMA ReservePackets ==
    ASSUME SocketInv, PacketInv, NEW w \in Workers, NEW c \in Openings, Reserve(w, c)
    PROVE  PacketInv'
<1>1. Shape /\ Others /\ Flows
    BY DEF SocketInv, PacketInv
<1>2. UNCHANGED <<known, pipe, wire>> /\ left' = [left EXCEPT ![c] = @ - 1]
    BY DEF Reserve, Spend
<1>3. left'["send"] = left["send"]
    <2>1. c # "send"
        BY DEF Openings
    <2> QED BY <1>1, <1>2, <2>1 DEF Others
<1>4. CASE alloc_id' <= MaxId /\ UNCHANGED slot
    <2>1. Onward
        BY <1>2, <1>3, <1>4, OnwardTaken
    <2> QED BY <1>2, <1>4, <2>1, PacketIdle
<1>5. ASSUME NEW id \in FreeIds \cap Ids, alloc_id' = id,
             slot' = [slot EXCEPT ![HASH_ID(id)].type = "RESERVE"]
      PROVE  PacketInv'
    <2> DEFINE h == HASH_ID(id)
               p == [slot[h] EXCEPT !.type = "RESERVE"]
    <2>1. h \in Slots
        BY <1>1, FreeId
    <2>2. alloc_id' <= MaxId
        BY <1>5 DEF Ids
    <2>3. Onward
        BY <1>2, <1>3, <2>2, OnwardTaken
    <2>4. slot' = [slot EXCEPT ![h] = p]
        BY <1>5
    <2> HIDE DEF h
    <2>5. /\ p.id = slot[h].id /\ p.high = slot[h].high /\ p.low = slot[h].low
          /\ p.wb_size = slot[h].wb_size /\ p.type = "RESERVE"
        BY <1>1, <2>1 DEF Shape, SockFields
    <2>6. p.type \in Types /\ p.type \in Idle
        BY <2>5 DEF Types, Idle
    <2> HIDE DEF p
    <2> QED BY <1>2, <2>1, <2>3, <2>4, <2>5, <2>6, SocketStays
<1> QED BY <1>4, <1>5 DEF Reserve

\* A worker names the slot and asks.
LEMMA RequestPackets ==
    ASSUME SocketInv, PacketInv, NEW w \in Workers, Request(w) PROVE PacketInv'
<1>1. Shape /\ ClaimsHeld /\ Flows /\ alloc_id <= MaxId
    BY DEF SocketInv, PacketInv
<1> DEFINE r == claims[w]
           h == HASH_ID(r.id)
           cmd == [c |-> r.c, id |-> r.id, x |-> 0]
           p == [slot[h] EXCEPT !.id = r.id]
<1>2. /\ r # None /\ known' = known \cup {r.id} /\ slot' = [slot EXCEPT ![h] = p]
      /\ pipe' = Append(pipe, cmd) /\ UNCHANGED <<alloc_id, left, wire>>
    BY DEF Request, Stored
<1>3. /\ r.c \in Openings /\ r.id \in (1..alloc_id) \ known /\ r.id \in Nat \ {0} /\ h \in Slots
      /\ alloc_id \in Nat
    BY <1>1, <1>2, IdsHash DEF Shape
<1>4. slot[h].type = "RESERVE"
    BY <1>1, <1>2 DEF ClaimsHeld
<1>5. cmd \in Cmds /\ cmd.id = r.id /\ cmd.c \in Openings
    BY <1>3 DEF Cmds
<1>6. cmd.c \notin {"D", "P"}
    BY <1>5 DEF Openings
<1>7. Onward
    <2> HIDE DEF cmd
    <2>1. alloc_id' <= MaxId /\ left'["send"] = left["send"]
        BY <1>1, <1>2
    <2> QED BY <1>2, <1>3, <1>5, <1>6, <2>1, OnwardAsked
<1>8. r.id \in Ids
    <2>1. MaxId \in Nat
        BY SocketAssumption
    <2> QED BY <1>1, <1>3, <2>1 DEF Ids
<1> HIDE DEF h, r
<1>9. /\ p.id = r.id /\ p.high = slot[h].high /\ p.low = slot[h].low /\ p.type = "RESERVE"
    BY <1>1, <1>3, <1>4 DEF Shape, SockFields
<1>10. Lists(slot[h])
    BY <1>1, <1>3 DEF Flows
<1> HIDE DEF p
<1>11. Lists(p) /\ p.type \in Idle
    BY <1>8, <1>9, <1>10 DEF Lists, Types, Idle
<1>12. known \subseteq known' /\ wire' = wire
    BY <1>2
<1> QED BY <1>2, <1>3, <1>7, <1>11, <1>12, SlotEmpty

\* What services ask of sockets they know: a packet gets the next number.
LEMMA AskPackets ==
    ASSUME SocketInv, PacketInv, NEW id \in known,
           \/ \E c \in {"D", "P"} : Send(id, c)
           \/ \E x \in BOOLEAN : Close(id, x)
           \/ Start(id)
    PROVE  PacketInv'
<1>1. id \in Nat \ {0}
    BY IdsHash DEF SocketInv
<1>2. left \in [Openings \cup {"send", "close", "start"} -> Nat] /\ MaxSend \in Nat
      /\ alloc_id <= MaxId
    BY SocketAssumption DEF SocketInv, Others, PacketInv
<1>3. ASSUME NEW c \in {"S", "D", "P", "K"}, NEW x \in Int, Post(c, id, x),
             \/ c \notin {"D", "P"} /\ left'["send"] = left["send"]
             \/ x = Sent' /\ left'["send"] = left["send"] - 1
      PROVE  PacketInv'
    <2> DEFINE cmd == [c |-> c, id |-> id, x |-> x]
    <2>1. cmd \in Cmds /\ cmd.c = c /\ cmd.x = x /\ cmd.c \notin Openings
        BY <1>1 DEF Cmds, Openings
    <2>2. pipe' = Append(pipe, cmd) /\ UNCHANGED <<slot, alloc_id, known, wire>>
        BY <1>3 DEF Post
    <2> HIDE DEF cmd
    <2>3. alloc_id' <= MaxId
        BY <1>2, <2>2
    <2>4. Onward
        BY <1>3, <2>1, <2>2, <2>3, OnwardAsked
    <2> QED BY <2>2, <2>4, PacketIdle
<1>4. ASSUME NEW c \in {"D", "P"}, Send(id, c) PROVE PacketInv'
    <2>1. left' = [left EXCEPT !["send"] = @ - 1] /\ Post(c, id, MaxSend - left'["send"])
        BY <1>4 DEF Send, Spend
    <2>2. left'["send"] = left["send"] - 1
        BY <1>2, <2>1
    <2>3. left["send"] \in Nat
        BY <1>2
    <2>4. MaxSend - left'["send"] \in Int /\ MaxSend - left'["send"] = Sent'
        BY <1>2, <2>2, <2>3 DEF Sent
    <2> QED BY <1>3, <2>1, <2>2, <2>4
<1>5. ASSUME NEW x \in BOOLEAN, Close(id, x) PROVE PacketInv'
    <2>1. (IF x THEN 1 ELSE 0) \in Int
        OBVIOUS
    <2>2. left' = [left EXCEPT !["close"] = @ - 1] /\ Post("K", id, IF x THEN 1 ELSE 0)
        BY <1>5 DEF Close, Spend
    <2>3. left'["send"] = left["send"]
        BY <1>2, <2>2
    <2> QED BY <1>3, <2>1, <2>2, <2>3
<1>6. CASE Start(id)
    <2>1. left' = [left EXCEPT !["start"] = @ - 1] /\ Post("S", id, 0)
        BY <1>6 DEF Start, Spend
    <2>2. left'["send"] = left["send"]
        BY <1>2, <2>1
    <2> QED BY <1>3, <2>1, <2>2
<1> QED BY <1>4, <1>5, <1>6

\* The command that is taken, the slot it names, and what is still to come.
LEMMA CommandTaken ==
    ASSUME SocketInv, PacketInv, pipe # << >>, pipe' = Tail(pipe),
           UNCHANGED <<alloc_id, left>>
    PROVE  LET r == Head(pipe)
               h == HASH_ID(r.id)
           IN  /\ Onward
               /\ r \in Cmds /\ r.id \in known /\ h \in Slots
               /\ DOMAIN slot[h] = SockFields /\ Lists(slot[h])
               /\ slot = [slot EXCEPT ![h] = slot[h]]
               /\ r.c \in Openings => slot[h].id = r.id /\ r.id \in Ids /\ wire[r.id] = << >>
               /\ r.c \in {"D", "P"} => r.x \in Coming /\ \A y \in Coming' : r.x < y
<1>1. Shape /\ OpeningsHeld /\ Wires /\ Flows /\ alloc_id <= MaxId /\ pipe \in Seq(Cmds)
    BY DEF SocketInv, PacketInv, Shape
<1> DEFINE r == Head(pipe)
           h == HASH_ID(r.id)
<1>2. 1 \in DOMAIN pipe /\ r = pipe[1]
    BY <1>1, Popped
<1>3. r \in Cmds
    BY <1>1, <1>2
<1>4. r.id \in known /\ h \in Slots /\ r.id # 0
    BY <1>1, <1>2, IdsHash
<1>5. pipe' # pipe
    <2> DEFINE l == Len(pipe)
               m == Len(pipe')
    <2>1. m = l - 1 /\ l \in Nat
        BY <1>1
    <2> SUFFICES m # l
        OBVIOUS
    <2> HIDE DEF l, m
    <2> QED BY <2>1
<1>6. /\ Onward
      /\ r.c \in {"D", "P"} => r.x \in Coming /\ \A y \in Coming' : r.x < y
    BY <1>1, <1>5, OnwardTaken
<1>7. DOMAIN slot[h] = SockFields /\ slot = [slot EXCEPT ![h] = slot[h]] /\ Lists(slot[h])
    BY <1>1, <1>4 DEF Shape, Flows
<1>8. ASSUME r.c \in Openings PROVE slot[h].id = r.id /\ r.id \in Ids /\ wire[r.id] = << >>
    <2>1. slot[h].id = r.id
        BY <1>1, <1>2, <1>8 DEF OpeningsHeld
    <2>2. r.id \in Ids
        BY <1>4, <1>7, <2>1 DEF Lists
    <2>3. wire[r.id] = << >>
        BY <1>1, <1>2, <1>8, <2>2 DEF Wires
    <2> QED BY <2>1, <2>2, <2>3
<1> QED BY <1>3, <1>4, <1>6, <1>7, <1>8

\* Nothing is buffered.
LEMMA BothEmpty ==
    ASSUME NEW s, Lists(s), Buffered(s) = << >>
    PROVE  s.high = << >> /\ s.low = << >>
<1>1. s.high \in Seq(Bytes) /\ s.low \in Seq(Bytes) /\ s.high \o s.low = << >>
    BY DEF Lists, Buffered
<1> DEFINE l == Len(s.high)
           m == Len(s.low)
<1>2. Len(s.high \o s.low) = l + m
    BY <1>1, Joined
<1>3. l \in Nat /\ m \in Nat /\ l + m = 0
    <2>1. l \in Nat /\ m \in Nat
        BY <1>1
    <2>2. Len(s.high \o s.low) = Len(<< >>) /\ Len(<< >>) = 0
        BY <1>1
    <2> HIDE DEF l, m
    <2> QED BY <1>2, <2>1, <2>2, Zenon
<1>4. (l = 0 => s.high = << >>) /\ (m = 0 => s.low = << >>)
    BY <1>1
<1> HIDE DEF l, m
<1>5. l = 0 /\ m = 0
    BY <1>3
<1> QED BY <1>4, <1>5

\* What force_close and a failed command leave.
LEMMA EmptyLists ==
    ASSUME NEW s, DOMAIN s = SockFields, Lists(s)
    PROVE  /\ Lists(Closed(s)) /\ Closed(s).type \in Idle /\ Closed(s).id = s.id
           /\ Lists(Failed(s)) /\ Failed(s).type \in Idle
<1>1. /\ Closed(s).type = "INVALID" /\ Closed(s).id = s.id
      /\ Closed(s).high = << >> /\ Closed(s).low = << >>
    BY DEF Closed, SockFields
<1>2. Failed(s).type = "INVALID" /\ Failed(s).id = s.id
      /\ Failed(s).high = s.high /\ Failed(s).low = s.low
    BY DEF Failed, SockFields
<1>3. "INVALID" \in Types /\ "INVALID" \in Idle
    BY DEF Types, Idle
<1>4. Lists(Closed(s))
    BY <1>1, <1>3, Nothing DEF Lists
<1>5. Lists(Failed(s))
    BY <1>2, <1>3 DEF Lists
<1> QED BY <1>1, <1>2, <1>3, <1>4, <1>5

\* The commands that open a socket: a new one has an empty buffer, and
\* nothing was ever sent under its id.
LEMMA OpenPackets ==
    ASSUME SocketInv, PacketInv, pipe # << >>, pipe' = Tail(pipe), UNCHANGED <<alloc_id, left>>,
           NEW r, r = Head(pipe), NEW s, s = slot[HASH_ID(r.id)],
           open_socket(r, s) \/ listen_socket(r, s) \/ bind_socket(r, s) \/ add_udp_socket(r, s)
    PROVE  PacketInv'
<1> DEFINE h == HASH_ID(r.id)
<1>1. UNCHANGED <<known, wire>> /\ r.c \in Openings
    BY DEF open_socket, listen_socket, bind_socket, add_udp_socket, Openings
<1>2. /\ Onward /\ h \in Slots /\ DOMAIN s = SockFields /\ Lists(s)
      /\ s.id = r.id /\ r.id \in Ids /\ wire[r.id] = << >>
    BY <1>1, CommandTaken
<1>3. ASSUME NEW type \in Types, NEW protocol, NEW write, Named(s),
             Goes(h, NewFd(s, type, protocol, write))
      PROVE  PacketInv'
    <2> DEFINE p == NewFd(s, type, protocol, write)
    <2>1. /\ p.type = type /\ p.id = s.id /\ p.high = s.high /\ p.low = s.low
          /\ p.wb_size = 0
        BY <1>2 DEF NewFd, SockFields
    <2>2. s.high = << >> /\ s.low = << >>
        BY <1>2, <1>3, BothEmpty DEF Named
    <2>3. slot' = [slot EXCEPT ![h] = p]
        BY <1>3 DEF Goes
    <2> HIDE DEF p, h
    <2> QED BY <1>1, <1>2, <2>1, <2>2, <2>3, SocketBegins
<1>4. ASSUME Goes(h, Failed(s)) PROVE PacketInv'
    <2>1. slot' = [slot EXCEPT ![h] = Failed(s)]
        BY <1>4 DEF Goes
    <2>2. Lists(Failed(s)) /\ Failed(s).type \in Idle
        BY <1>2, EmptyLists
    <2> HIDE DEF h
    <2> QED BY <1>1, <1>2, <2>1, <2>2, SlotEmpty
<1>5. {"CONNECTING", "CONNECTED", "PLISTEN", "BIND"} \subseteq Types
    BY DEF Types
<1>6. CASE open_socket(r, s)
    BY <1>3, <1>4, <1>5, <1>6 DEF open_socket
<1>7. CASE listen_socket(r, s)
    BY <1>3, <1>4, <1>5, <1>7 DEF listen_socket
<1>8. CASE bind_socket(r, s)
    BY <1>3, <1>4, <1>5, <1>8 DEF bind_socket
<1>9. CASE add_udp_socket(r, s)
    BY <1>3, <1>4, <1>5, <1>9 DEF add_udp_socket
<1> QED BY <1>6, <1>7, <1>8, <1>9

\* socket_server_start changes no buffer.
LEMMA StartPackets ==
    ASSUME SocketInv, PacketInv, pipe # << >>, pipe' = Tail(pipe), UNCHANGED <<alloc_id, left>>,
           NEW r, r = Head(pipe), NEW s, s = slot[HASH_ID(r.id)], start_socket(r, s)
    PROVE  PacketInv'
<1> DEFINE h == HASH_ID(r.id)
<1>1. UNCHANGED <<known, wire>>
    BY DEF start_socket
<1>2. Onward /\ h \in Slots /\ DOMAIN s = SockFields /\ Lists(s)
    BY CommandTaken
<1>3. CASE slot' = slot
    BY <1>1, <1>2, <1>3, PacketIdle
<1>4. ASSUME Goes(h, Closed(s)) PROVE PacketInv'
    <2>1. slot' = [slot EXCEPT ![h] = Closed(s)]
        BY <1>4 DEF Goes
    <2>2. Lists(Closed(s)) /\ Closed(s).type \in Idle
        BY <1>2, EmptyLists
    <2> HIDE DEF h
    <2> QED BY <1>1, <1>2, <2>1, <2>2, SlotEmpty
<1>5. ASSUME s.type \in {"PACCEPT", "PLISTEN"},
             Goes(h, [s EXCEPT !.type = IF @ = "PACCEPT" THEN "CONNECTED" ELSE "LISTEN"])
      PROVE  PacketInv'
    <2> DEFINE p == [s EXCEPT !.type = IF @ = "PACCEPT" THEN "CONNECTED" ELSE "LISTEN"]
    <2>1. /\ p.type \in {"CONNECTED", "LISTEN"} /\ p.id = s.id /\ p.high = s.high /\ p.low = s.low
          /\ p.wb_size = s.wb_size
        BY <1>2 DEF SockFields
    <2>2. slot' = [slot EXCEPT ![h] = p]
        BY <1>5 DEF Goes
    <2>3. p.type \in Types /\ slot[h].type \notin Idle /\ s = slot[h]
        BY <1>5, <2>1 DEF Types, Idle
    <2> HIDE DEF p, h
    <2> QED BY <1>1, <1>2, <2>1, <2>2, <2>3, SocketStays
<1> QED BY <1>3, <1>4, <1>5 DEF start_socket

\* A socket takes a packet; it has the buffers of q.
LEMMA SocketCarries ==
    ASSUME SocketInv, PacketInv, Onward, known \subseteq known',
           NEW i \in Slots, slot[i].type \notin Idle,
           NEW n \in Int, \A y \in Coming' : n < y,
           NEW q, NEW x, Carried(slot[i], wire[slot[i].id], q, x, n),
           NEW p, slot' = [slot EXCEPT ![i] = p],
           p.id = q.id, p.type = q.type, p.high = q.high, p.low = q.low, p.wb_size = q.wb_size,
           wire' = [wire EXCEPT ![slot[i].id] = x]
    PROVE  PacketInv'
<1> DEFINE s == slot[i]
           w == wire[s.id]
<1>1. /\ q.type = s.type /\ q.id = s.id /\ Lists(q) /\ Flow(q, x)
      /\ x \in Seq(Bytes) /\ Pieces(x) /\ Rising(x)
      /\ \A y \in Int : Below(w \o s.high, y) /\ Below(s.low, y) /\ n < y =>
            Below(x \o q.high, y) /\ Below(q.low, y)
    BY DEF Carried
<1>2. Lists(p) /\ Flow(p, x)
    BY <1>1 DEF Lists, Flow
<1>3. \A y \in Coming' : y \in Int
    BY DEF Onward
<1>4. \A y \in Coming' : Below(w \o s.high, y) /\ Below(s.low, y) =>
         Below(x \o p.high, y) /\ Below(p.low, y)
    BY <1>1, <1>3
<1>5. p.id = slot[i].id
    BY <1>1
<1> QED BY <1>1, <1>2, <1>4, <1>5, SocketWrites

\* A packet is appended to a list, of a socket or of a reserved slot.
LEMMA AppendedLists ==
    ASSUME NEW s, DOMAIN s = SockFields, Lists(s), NEW n \in Int
    PROVE  /\ Lists(Appended(s, "high", Packet(n, FALSE), 0))
           /\ Lists(Appended(s, "low", Packet(n, TRUE), 0))
<1>0. /\ s.high \in Seq(Bytes) /\ s.low \in Seq(Bytes) /\ Blocks(s.low) /\ OnlyLow(s.low)
      /\ s.type \in Types /\ s.id \in Ids \cup {0}
    BY DEF Lists
<1>1. ASSUME NEW l \in BOOLEAN
      PROVE  /\ Remains(Packet(n, l), 0) = Packet(n, l) /\ Packet(n, l) \in Seq(Bytes)
             /\ Blocks(Packet(n, l)) /\ (l = TRUE => OnlyLow(Packet(n, l)))
    <2> DEFINE P == Packet(n, l)
    <2>1. P \in Seq(Bytes) /\ Len(P) = Size /\ Blocks(P) /\ (l = TRUE => OnlyLow(P))
        BY PacketBytes
    <2> HIDE DEF P
    <2>2. Remains(P, 0) = P
        BY <2>1, SubSeqFull DEF Remains
    <2> QED BY <2>1, <2>2 DEF P
<1>2. Lists(Appended(s, "high", Packet(n, FALSE), 0))
    <2> DEFINE P == Packet(n, FALSE)
               p == Appended(s, "high", P, 0)
    <2>1. P \in Seq(Bytes) /\ Remains(P, 0) = P
        BY <1>1
    <2> HIDE DEF P
    <2>2. p.high = s.high \o Remains(P, 0) /\ p.low = s.low
        BY DEF Appended, SockFields, Remains
    <2>3. p.type = s.type /\ p.id = s.id
        BY AppendedSocket
    <2> HIDE DEF p
    <2>4. p.high \in Seq(Bytes)
        BY <1>0, <2>1, <2>2, Joined
    <2>5. Lists(p)
        BY <1>0, <2>2, <2>3, <2>4 DEF Lists
    <2> QED BY <2>5 DEF p, P
<1>3. Lists(Appended(s, "low", Packet(n, TRUE), 0))
    <2> DEFINE P == Packet(n, TRUE)
               p == Appended(s, "low", P, 0)
    <2>1. P \in Seq(Bytes) /\ Remains(P, 0) = P /\ Blocks(P) /\ OnlyLow(P)
        BY <1>1
    <2> HIDE DEF P
    <2>2. p.low = s.low \o Remains(P, 0) /\ p.high = s.high
        BY DEF Appended, SockFields, Remains
    <2>3. p.type = s.type /\ p.id = s.id
        BY AppendedSocket
    <2> HIDE DEF p
    <2>4. p.low \in Seq(Bytes) /\ Blocks(p.low) /\ OnlyLow(p.low)
        BY <1>0, <2>1, <2>2, Joined, BlocksJoined, JoinedAll
    <2>5. Lists(p)
        BY <1>0, <2>2, <2>3, <2>4 DEF Lists
    <2> QED BY <2>5 DEF p, P
<1> QED BY <1>2, <1>3

\* A datagram is taken whole or not at all.
LEMMA Datagram ==
    ASSUME NEW n \in 0..Size, n % Size = 0 PROVE n = 0 \/ n = Size
<1>1. Size \in Nat \ {0}
    BY SocketAssumption
<1>2. ASSUME n < Size PROVE n % Size = n
    BY <1>1, <1>2
<1> QED BY <1>1, <1>2

\* send_socket writes at once as much as the kernel takes, and keeps the rest.
LEMMA DirectPackets ==
    ASSUME SocketInv, PacketInv, Onward, known \subseteq known',
           NEW h \in Slots, NEW s, s = slot[h], s.type = "CONNECTED", Buffered(s) = << >>,
           NEW x \in Int, x \in Coming, \A y \in Coming' : x < y,
           NEW l \in BOOLEAN, NEW list, list = (IF l THEN "low" ELSE "high"),
           NEW n \in Takes(s, Packet(x, l)), Written(s.id, Packet(x, l), n),
           Goes(h, IF n = Size THEN s ELSE
                     WriteOn(Appended(s, IF s.protocol = "UDP" THEN list ELSE "high",
                                      Packet(x, l), n)))
    PROVE  PacketInv'
<1> DEFINE w == wire[s.id]
           P == Packet(x, l)
           g == SubSeq(P, 1, n)
           q == Appended(s, "high", P, n)
<1>1. s.type \notin Idle
    BY DEF Idle
<1>2. /\ DOMAIN s = SockFields /\ Lists(s) /\ Flow(s, w) /\ w \in Seq(Bytes)
      /\ Below(w \o s.high, x) /\ Below(s.low, x) /\ s.id \in Ids
    BY <1>1, OwnWire DEF SocketInv, Shape, PacketInv, Flows
<1>3. s.high = << >> /\ s.low = << >>
    BY <1>2, BothEmpty
<1>4. P \in Seq(Bytes) /\ Len(P) = Size
    BY PacketBytes
<1>5. Size \in Nat \ {0} /\ n \in 0..Size /\ (s.protocol = "UDP" => n % Size = 0)
    BY <1>4, SocketAssumption DEF Takes, TakenOfStream, TakenOfDatagrams
<1>6. Below(w, x)
    BY <1>2, <1>3, ConcatEmptySeq
<1>7. Carried(s, w, q, w \o g, x)
    BY <1>2, <1>3, <1>5, <1>6, SendDirect
<1>8. wire' = [wire EXCEPT ![s.id] = w \o g]
    BY DEF Written
<1>9. DOMAIN q = SockFields
    BY <1>2, AppendedSocket
<1>10. q.high = s.high \o Remains(P, n) /\ q.low = s.low /\ q.wb_size = s.wb_size + Size - n
    BY <1>2 DEF Appended, SockFields, Remains
<1> HIDE DEF P, g, q, w
<1>11. CASE n = Size
    <2>1. slot' = [slot EXCEPT ![h] = s]
        BY <1>11 DEF Goes
    <2>2. Remains(P, n) = << >>
        BY <1>4, <1>5, <1>11, SubSeqEmpty DEF Remains
    <2>3. s.high = q.high
        BY <1>3, <1>10, <2>2
    <2>4. s.wb_size = q.wb_size
        <3>1. s.wb_size \in Int
            BY <1>2, <1>3 DEF Flow
        <3> QED BY <1>5, <1>10, <1>11, <3>1
    <2>5. s.id = q.id /\ s.type = q.type
        BY <1>7 DEF Carried
    <2> QED BY <1>1, <1>7, <1>8, <1>10, <2>1, <2>3, <2>4, <2>5, SocketCarries DEF w
<1>12. CASE n # Size /\ ~(s.protocol = "UDP" /\ l)
    <2> DEFINE p == WriteOn(q)
    <2>1. slot' = [slot EXCEPT ![h] = p]
        BY <1>12 DEF Goes, q, P
    <2>2. p.id = q.id /\ p.type = q.type /\ p.high = q.high /\ p.low = q.low /\ p.wb_size = q.wb_size
        BY <1>9 DEF WriteOn, SockFields
    <2> HIDE DEF p
    <2> QED BY <1>1, <1>7, <1>8, <2>1, <2>2, SocketCarries DEF w
<1>13. CASE n # Size /\ s.protocol = "UDP" /\ l
    <2> DEFINE u == Appended(s, "low", Packet(x, TRUE), 0)
               p == WriteOn(u)
    <2>1. n = 0
        BY <1>5, <1>13, Datagram
    <2>2. slot' = [slot EXCEPT ![h] = p]
        BY <1>13, <2>1 DEF Goes
    <2>3. w \o g = w
        <3>1. g = << >>
            BY <1>4, <2>1, SubSeqEmpty DEF g
        <3> QED BY <1>2, <3>1, ConcatEmptySeq
    <2>4. Carried(s, w, u, w, x)
        BY <1>2, SendLow
    <2>5. DOMAIN u = SockFields
        BY <1>2, AppendedSocket
    <2> HIDE DEF u
    <2>6. p.id = u.id /\ p.type = u.type /\ p.high = u.high /\ p.low = u.low /\ p.wb_size = u.wb_size
        BY <2>5 DEF WriteOn, SockFields
    <2> HIDE DEF p
    <2>7. wire' = [wire EXCEPT ![s.id] = w]
        BY <1>8, <2>3
    <2> QED BY <1>1, <2>2, <2>4, <2>6, <2>7, SocketCarries DEF w
<1> QED BY <1>11, <1>12, <1>13

\* Otherwise the packet is buffered.
LEMMA BufferedPackets ==
    ASSUME SocketInv, PacketInv, Onward, known \subseteq known', wire' = wire,
           NEW h \in Slots, NEW s, s = slot[h],
           NEW x \in Int, x \in Coming, \A y \in Coming' : x < y,
           NEW l \in BOOLEAN, NEW list, list = (IF l THEN "low" ELSE "high"),
           Goes(h, Appended(s, list, Packet(x, l), 0))
    PROVE  PacketInv'
<1> DEFINE w == wire[s.id]
           p == Appended(s, list, Packet(x, l), 0)
<1>1. DOMAIN s = SockFields /\ Lists(s) /\ slot' = [slot EXCEPT ![h] = p]
    BY DEF SocketInv, Shape, PacketInv, Flows, Goes
<1>2. /\ l = FALSE => p = Appended(s, "high", Packet(x, FALSE), 0)
      /\ l = TRUE => p = Appended(s, "low", Packet(x, TRUE), 0)
    OBVIOUS
<1>3. p.type = s.type
    <2>1. list \in {"high", "low"}
        OBVIOUS
    <2> QED BY <1>1, <2>1, AppendedSocket
<1> HIDE DEF p
<1>4. Lists(p)
    BY <1>1, <1>2, AppendedLists
<1>5. CASE s.type \in Idle
    BY <1>1, <1>3, <1>4, <1>5, SlotEmpty
<1>6. CASE s.type \notin Idle
    <2>1. /\ Flow(s, w) /\ w \in Seq(Bytes) /\ Below(w \o s.high, x) /\ Below(s.low, x)
          /\ s.id \in Ids
        BY <1>6, OwnWire DEF PacketInv, Flows
    <2>2. wire' = [wire EXCEPT ![s.id] = w]
        BY <2>1 DEF PacketInv, Wires
    <2> HIDE DEF w
    <2>3. Carried(s, w, p, w, x)
        BY <1>1, <1>2, <2>1, SendHigh, SendLow
    <2> QED BY <1>1, <1>6, <2>2, <2>3, SocketCarries DEF w
<1> QED BY <1>5, <1>6

\* send_socket
LEMMA SendPackets ==
    ASSUME SocketInv, PacketInv, pipe # << >>, pipe' = Tail(pipe), UNCHANGED <<alloc_id, left>>,
           NEW r, r = Head(pipe), NEW s, s = slot[HASH_ID(r.id)], send_socket(r, s)
    PROVE  PacketInv'
<1> DEFINE h == HASH_ID(r.id)
           l == (r.c = "P")
           list == IF r.c = "P" THEN "low" ELSE "high"
<1>1. known' = known /\ r.c \in {"D", "P"}
    BY DEF send_socket
<1>2. /\ Onward /\ r \in Cmds /\ h \in Slots /\ DOMAIN s = SockFields /\ Lists(s)
      /\ r.x \in Coming /\ \A y \in Coming' : r.x < y
    BY <1>1, CommandTaken
<1>3. r.x \in Int /\ l \in BOOLEAN /\ list = (IF l THEN "low" ELSE "high") /\ s = slot[h]
    BY <1>2 DEF Cmds
<1>4. CASE UNCHANGED <<slot, wire>>
    BY <1>1, <1>2, <1>4, PacketIdle
<1>5. ASSUME ~Stale(r, s), Buffered(s) = << >>, s.type = "CONNECTED",
             NEW n \in Takes(s, Packet(r.x, l)), Written(r.id, Packet(r.x, l), n),
             Goes(h, IF n = Size THEN s ELSE
                       WriteOn(Appended(s, IF s.protocol = "UDP" THEN list ELSE "high",
                                        Packet(r.x, l), n)))
      PROVE  PacketInv'
    <2>1. s.id = r.id
        BY <1>5 DEF Stale
    <2> HIDE DEF h, l, list
    <2> QED BY <1>1, <1>2, <1>3, <1>5, <2>1, DirectPackets
<1>6. CASE Goes(h, Closed(s)) /\ UNCHANGED wire
    <2>1. slot' = [slot EXCEPT ![h] = Closed(s)]
        BY <1>6 DEF Goes
    <2>2. Lists(Closed(s)) /\ Closed(s).type \in Idle
        BY <1>2, EmptyLists
    <2> HIDE DEF h
    <2> QED BY <1>1, <1>2, <1>6, <2>1, <2>2, SlotEmpty
<1>7. CASE Goes(h, Appended(s, list, Packet(r.x, l), 0)) /\ UNCHANGED wire
    <2> HIDE DEF h, l, list
    <2> QED BY <1>1, <1>2, <1>3, <1>7, BufferedPackets
<1> QED BY <1>4, <1>5, <1>6, <1>7 DEF send_socket

\* What the kernel takes of the buffers.
LEMMA TakesLength ==
    ASSUME NEW s, Lists(s), NEW k \in Takes(s, Buffered(s))
    PROVE  k \in 0..Len(s.high) + Len(s.low)
<1>1. s.high \in Seq(Bytes) /\ s.low \in Seq(Bytes)
    BY DEF Lists
<1>2. Len(Buffered(s)) = Len(s.high) + Len(s.low)
    BY <1>1, Joined DEF Buffered
<1>3. k \in 0..Len(Buffered(s))
    BY DEF Takes, TakenOfStream, TakenOfDatagrams
<1> QED BY <1>2, <1>3, Zenon

\* A socket keeps its id.
LEMMA FlushedId ==
    ASSUME NEW s, DOMAIN s = SockFields, NEW k
    PROVE  Flushed(s, k).id = s.id
<1>1. ASSUME NEW e, DOMAIN e = SockFields PROVE Raised(e).id = e.id
    BY <1>1 DEF Raised, SockFields
<1> DEFINE h == IF k < Len(s.high) THEN k ELSE Len(s.high)
           e == [s EXCEPT !.high = SubSeq(@, h + 1, Len(@)), !.wb_size = @ - k,
                          !.low = SubSeq(@, k - h + 1, Len(@))]
<1>2. Flushed(s, k) = Raised(e)
    BY DEF Flushed
<1>3. DOMAIN e = SockFields /\ e.id = s.id
    BY DEF SockFields
<1> HIDE DEF e
<1> QED BY <1>1, <1>2, <1>3

\* send_buffer has written k bytes: the socket ends, or goes on with the rest.
LEMMA FlushedPackets ==
    ASSUME SocketInv, PacketInv, Onward, known \subseteq known',
           NEW h \in Slots, NEW s, s = slot[h], s.type \notin Idle,
           NEW k \in Takes(s, Buffered(s)), Written(s.id, Buffered(s), k),
           NEW p, slot' = [slot EXCEPT ![h] = p],
           LET f == Flushed(s, k)
           IN  \/ p = Closed(s)
               \/ /\ p.id = f.id /\ p.type \in Types
                  /\ p.high = f.high /\ p.low = f.low /\ p.wb_size = f.wb_size
    PROVE  PacketInv'
<1> DEFINE w == wire[s.id]
           x == w \o SubSeq(Buffered(s), 1, k)
           f == Flushed(s, k)
<1>1. DOMAIN s = SockFields /\ Lists(s) /\ Flow(s, w) /\ w \in Seq(Bytes) /\ s.id \in Ids
    BY OwnWire DEF SocketInv, Shape, PacketInv, Flows
<1>2. k \in 0..Len(s.high) + Len(s.low)
    BY <1>1, TakesLength
<1>3. wire' = [wire EXCEPT ![s.id] = x]
    BY DEF Written
<1> HIDE DEF w
<1>4. /\ x \in Seq(Bytes) /\ Pieces(x) /\ Rising(x)
      /\ f.id = s.id /\ f.high \in Seq(Bytes) /\ f.low \in Seq(Bytes)
      /\ Blocks(f.low) /\ OnlyLow(f.low) /\ Flow(f, x)
      /\ \A y : Below(w \o s.high, y) /\ Below(s.low, y) =>
            Below(x \o f.high, y) /\ Below(f.low, y)
    <2> HIDE DEF x, f
    <2>1. x \in Seq(Bytes) /\ Pieces(x) /\ Rising(x)
        BY <1>1, <1>2, FlushFlow DEF x, f
    <2>4. f.id = s.id
        BY <1>1, FlushedId DEF f
    <2>5. f.high \in Seq(Bytes)
        BY <1>1, <1>2, FlushFlow DEF x, f
    <2>6. f.low \in Seq(Bytes)
        BY <1>1, <1>2, FlushFlow DEF x, f
    <2>2. Blocks(f.low) /\ OnlyLow(f.low) /\ Flow(f, x)
        BY <1>1, <1>2, FlushFlow DEF x, f
    <2>3. \A y : Below(w \o s.high, y) /\ Below(s.low, y) =>
             Below(x \o f.high, y) /\ Below(f.low, y)
        BY <1>1, <1>2, FlushFlow DEF x, f
    <2> QED BY <2>1, <2>2, <2>3, <2>4, <2>5, <2>6
<1>5. \/ p = Closed(s)
      \/ /\ p.id = f.id /\ p.type \in Types
         /\ p.high = f.high /\ p.low = f.low /\ p.wb_size = f.wb_size
    OBVIOUS
<1> HIDE DEF x, f
<1>6. CASE p = Closed(s)
    <2>1. Lists(p) /\ p.type \in Idle /\ p.id = s.id
        BY <1>1, <1>6, EmptyLists
    <2> QED BY <1>3, <1>4, <2>1, SocketWrites
<1>7. CASE /\ p.id = f.id /\ p.type \in Types
           /\ p.high = f.high /\ p.low = f.low /\ p.wb_size = f.wb_size
    <2>1. Lists(p) /\ Flow(p, x) /\ p.id = s.id
        BY <1>1, <1>4, <1>7 DEF Lists, Flow
    <2>2. \A y \in Coming' : Below(wire[slot[h].id] \o slot[h].high, y) /\ Below(slot[h].low, y) =>
             Below(x \o p.high, y) /\ Below(p.low, y)
        BY <1>4, <1>7 DEF w
    <2> QED BY <1>3, <1>4, <2>1, <2>2, SocketWrites
<1> QED BY <1>5, <1>6, <1>7

\* close_socket writes what it can and ends the socket, or half closes it.
LEMMA ClosePackets ==
    ASSUME SocketInv, PacketInv, pipe # << >>, pipe' = Tail(pipe), UNCHANGED <<alloc_id, left>>,
           NEW r, r = Head(pipe), NEW s, s = slot[HASH_ID(r.id)], close_socket(r, s)
    PROVE  PacketInv'
<1> DEFINE h == HASH_ID(r.id)
<1>1. known' = known
    BY DEF close_socket
<1>2. Onward /\ h \in Slots /\ DOMAIN s = SockFields /\ Lists(s) /\ s = slot[h]
    BY CommandTaken
<1>3. CASE UNCHANGED <<slot, wire>>
    BY <1>1, <1>2, <1>3, PacketIdle
<1>4. CASE Abort \/ Stray
    BY <1>1, <1>2, <1>4, PacketIdle DEF Abort, Stray, Halt
<1>5. CASE Goes(h, Closed(s)) /\ UNCHANGED wire
    <2>1. slot' = [slot EXCEPT ![h] = Closed(s)]
        BY <1>5 DEF Goes
    <2>2. Lists(Closed(s)) /\ Closed(s).type \in Idle
        BY <1>2, EmptyLists
    <2> HIDE DEF h
    <2> QED BY <1>1, <1>2, <1>5, <2>1, <2>2, SlotEmpty
<1>6. ASSUME ~Stale(r, s), s.type # "RESERVE", NEW k \in Takes(s, Buffered(s)),
             Written(r.id, Buffered(s), k),
             \/ Goes(h, Closed(s))
             \/ Goes(h, [Flushed(s, k) EXCEPT !.type = "HALFCLOSE"])
      PROVE  PacketInv'
    <2>1. s.id = r.id /\ s.type \notin Idle
        BY <1>6 DEF Stale, Idle
    <2>2. Written(s.id, Buffered(s), k)
        BY <1>6, <2>1
    <2> HIDE DEF h
    <2>3. CASE Goes(h, Closed(s))
        <3>1. slot' = [slot EXCEPT ![h] = Closed(s)]
            BY <2>3 DEF Goes
        <3> QED BY <1>1, <1>2, <2>1, <2>2, <3>1, FlushedPackets
    <2>4. CASE Goes(h, [Flushed(s, k) EXCEPT !.type = "HALFCLOSE"])
        <3> DEFINE f == Flushed(s, k)
                   p == [f EXCEPT !.type = "HALFCLOSE"]
        <3>1. DOMAIN f = SockFields
            BY <1>2, Sockets
        <3>2. slot' = [slot EXCEPT ![h] = p]
            BY <2>4 DEF Goes
        <3> HIDE DEF f
        <3>3. p.id = f.id /\ p.type = "HALFCLOSE" /\ p.high = f.high /\ p.low = f.low
              /\ p.wb_size = f.wb_size
            BY <3>1 DEF SockFields
        <3>4. p.type \in Types
            BY <3>3 DEF Types
        <3> HIDE DEF p
        <3> QED BY <1>1, <1>2, <2>1, <2>2, <3>2, <3>3, <3>4, FlushedPackets DEF f
    <2> QED BY <1>6, <2>3, <2>4
<1> QED BY <1>3, <1>4, <1>5, <1>6 DEF close_socket

\* ctrl_cmd
LEMMA CommandPackets ==
    ASSUME SocketInv, PacketInv, Command PROVE PacketInv'
<1> DEFINE r == Head(pipe)
           s == slot[HASH_ID(r.id)]
<1>1. pipe # << >> /\ pipe' = Tail(pipe) /\ UNCHANGED <<alloc_id, left>>
    BY DEF Command
<1>2. \/ open_socket(r, s) \/ listen_socket(r, s) \/ bind_socket(r, s)
      \/ add_udp_socket(r, s) \/ new_fd_asserts(r, s) \/ start_socket(r, s)
      \/ send_socket(r, s) \/ close_socket(r, s)
    BY DEF Command
<1>3. CASE new_fd_asserts(r, s)
    <2>1. Onward
        BY <1>1, CommandTaken
    <2>2. UNCHANGED <<slot, known, wire>>
        BY <1>3 DEF new_fd_asserts, Abort, Halt
    <2> QED BY <2>1, <2>2, PacketIdle
<1>4. r = Head(pipe) /\ s = slot[HASH_ID(r.id)]
    OBVIOUS
<1> HIDE DEF r, s
<1> QED BY <1>1, <1>2, <1>3, <1>4, OpenPackets, StartPackets, SendPackets, ClosePackets

\* A new connection: nothing was sent under an id that is new.
LEMMA AcceptPackets ==
    ASSUME SocketInv, PacketInv, UNCHANGED <<pipe, left, wire>>, alloc_id' <= MaxId,
           NEW id \in FreeIds \cap Ids, Buffered(slot[HASH_ID(id)]) = << >>,
           known' = known \cup {id},
           Goes(HASH_ID(id), NewFd([slot[HASH_ID(id)] EXCEPT !.id = id], "PACCEPT", "TCP", FALSE))
    PROVE  PacketInv'
<1> DEFINE h == HASH_ID(id)
           q == slot[h]
           p == NewFd([q EXCEPT !.id = id], "PACCEPT", "TCP", FALSE)
<1>1. Shape /\ Wires /\ Flows
    BY DEF SocketInv, PacketInv
<1>2. h \in Slots /\ id \notin known /\ id \in Ids
    BY <1>1, FreeId
<1>3. DOMAIN q = SockFields /\ Lists(q)
    BY <1>1, <1>2 DEF Shape, Flows
<1>4. q.high = << >> /\ q.low = << >>
    BY <1>3, BothEmpty
<1>5. wire[id] = << >>
    BY <1>1, <1>2 DEF Wires
<1>6. slot' = [slot EXCEPT ![h] = p]
    BY DEF Goes
<1>7. Onward
    BY OnwardTaken
<1> HIDE DEF h, q
<1>8. /\ p.type = "PACCEPT" /\ p.id = id /\ p.high = q.high /\ p.low = q.low /\ p.wb_size = 0
    BY <1>3 DEF NewFd, SockFields
<1>9. p.type \in Types /\ p.id \in Ids /\ wire[p.id] = << >>
    BY <1>2, <1>5, <1>8 DEF Types
<1>10. known \subseteq known'
    OBVIOUS
<1> HIDE DEF p
<1> QED BY <1>2, <1>4, <1>6, <1>7, <1>8, <1>9, <1>10, SocketBegins

\* send_buffer when nothing is taken: the lists stay, for no low packet is
\* begun.
LEMMA NothingFlushed ==
    ASSUME NEW s, DOMAIN s = SockFields, Lists(s)
    PROVE  /\ Flushed(s, 0).type = s.type /\ Flushed(s, 0).id = s.id
           /\ Flushed(s, 0).high = s.high /\ Flushed(s, 0).low = s.low
<1>1. s.high \in Seq(Bytes) /\ s.low \in Seq(Bytes) /\ Blocks(s.low)
    BY DEF Lists
<1>2. SubSeq(s.high, 1, Len(s.high)) = s.high /\ SubSeq(s.low, 1, Len(s.low)) = s.low
      /\ Len(s.high) \in Nat
    BY <1>1
<1> DEFINE t == [s EXCEPT !.high = s.high, !.wb_size = s.wb_size - 0, !.low = s.low]
<1>3. t.type = s.type /\ t.id = s.id /\ t.high = s.high /\ t.low = s.low
    BY DEF SockFields
<1>4. Flushed(s, 0) = Raised(t)
    <2>1. (IF 0 < Len(s.high) THEN 0 ELSE Len(s.high)) = 0
        BY <1>2
    <2>2. 0 + 1 = 1 /\ 0 - 0 + 1 = 1
        OBVIOUS
    <2>3. /\ SubSeq(s.high, 0 + 1, Len(s.high)) = s.high
          /\ SubSeq(s.low, 0 - 0 + 1, Len(s.low)) = s.low
        BY <1>2, <2>2
    <2> QED BY <2>1, <2>3 DEF Flushed
<1>5. ~Uncomplete(s.low)
    BY <1>1, BlocksBegin DEF Uncomplete
<1> HIDE DEF t
<1>6. Raised(t) = t
    BY <1>3, <1>5 DEF Raised
<1> QED BY <1>3, <1>4, <1>6

\* A write event.
LEMMA WritePackets ==
    ASSUME SocketInv, PacketInv, UNCHANGED <<pipe, left>>,
           NEW i \in Slots, NEW s, s = slot[i], NEW k \in Takes(s, Buffered(s)),
           WriteEvent(i, s, k)
    PROVE  PacketInv'
<1>1. /\ s.type # "INVALID" /\ UNCHANGED <<alloc_id, known>> /\ Written(s.id, Buffered(s), k)
      /\ s.type = "RESERVE" => k = 0
    BY DEF WriteEvent, Plain
<1>2. Onward /\ known \subseteq known'
    BY <1>1, OnwardTaken DEF PacketInv
<1>3. DOMAIN s = SockFields /\ Lists(s)
    BY DEF SocketInv, Shape, PacketInv, Flows
<1> DEFINE f == Flushed(s, k)
           d == Drained(s, k)
           p == [f EXCEPT !.write = @ /\ ~d]
<1>4. DOMAIN f = SockFields /\ f.type = s.type
    BY <1>3, Sockets
<1>5. \/ s.type = "HALFCLOSE" /\ slot' = [slot EXCEPT ![i] = Closed(s)]
      \/ slot' = [slot EXCEPT ![i] = p]
    BY DEF WriteEvent, Goes
<1> HIDE DEF f, d
<1>6. p.id = f.id /\ p.type = f.type /\ p.high = f.high /\ p.low = f.low /\ p.wb_size = f.wb_size
    BY <1>4 DEF SockFields
<1>7. p.type \in Types
    BY <1>3, <1>4, <1>6 DEF Lists
<1> HIDE DEF p
<1>8. CASE s.type \notin Idle
    <2>1. CASE slot' = [slot EXCEPT ![i] = Closed(s)]
        BY <1>1, <1>2, <1>8, <2>1, FlushedPackets
    <2>2. CASE slot' = [slot EXCEPT ![i] = p]
        BY <1>1, <1>2, <1>6, <1>7, <1>8, <2>2, FlushedPackets DEF f
    <2> QED BY <1>5, <2>1, <2>2
<1>9. CASE s.type = "RESERVE"
    <2>1. k = 0
        BY <1>1, <1>9
    <2>2. f.id = s.id /\ f.high = s.high /\ f.low = s.low
        BY <1>3, <2>1, NothingFlushed DEF f
    <2>3. Buffered(s) \in Seq(Bytes)
        BY <1>3, Joined DEF Buffered, Lists
    <2>4. wire' = wire
        <3>1. wire' = [wire EXCEPT ![s.id] = @ \o SubSeq(Buffered(s), 1, 0)]
            BY <1>1, <2>1 DEF Written
        <3>2. SubSeq(Buffered(s), 1, 0) = << >>
            BY <2>3
        <3>3. wire \in [Ids -> Seq(Bytes)]
            BY DEF PacketInv, Wires
        <3>4. s.id \in Ids => wire[s.id] \o << >> = wire[s.id]
            BY <3>3, ConcatEmptySeq
        <3> QED BY <3>1, <3>2, <3>3, <3>4
    <2>5. Lists(p) /\ p.type \in Idle
        BY <1>3, <1>4, <1>6, <1>7, <1>9, <2>2 DEF Lists, Idle
    <2>6. slot' = [slot EXCEPT ![i] = p]
        BY <1>5, <1>9
    <2> QED BY <1>2, <2>4, <2>5, <2>6, SlotEmpty
<1> QED BY <1>1, <1>8, <1>9 DEF Idle

\* An event is handled.
LEMMA EventPackets ==
    ASSUME SocketInv, PacketInv, Event PROVE PacketInv'
<1>1. Shape /\ Others /\ Flows /\ alloc_id <= MaxId
    BY DEF SocketInv, PacketInv
<1>2. ev # << >> /\ UNCHANGED <<pipe, left>>
    BY DEF Event, EventTurn
<1>3. ASSUME alloc_id' <= MaxId, UNCHANGED <<slot, known, wire>> PROVE PacketInv'
    <2>1. Onward
        BY <1>2, <1>3, OnwardTaken
    <2> QED BY <1>3, <2>1, PacketIdle
<1>4. CASE SkipEvent
    BY <1>1, <1>3, <1>4 DEF SkipEvent
<1>5. ASSUME Abort \/ Stray, alloc_id' <= MaxId PROVE PacketInv'
    BY <1>3, <1>5 DEF Abort, Stray, Halt
<1> DEFINE i == Head(ev).s
           s == slot[i]
<1>6. CASE /\ Head(ev).s # Pipe
           /\ \/ report_connect(i, s) \/ report_accept(i, s) \/ ReadEvent(i, s)
              \/ \E k \in Takes(s, Buffered(s)) : WriteEvent(i, s, k)
              \/ WriteFails(i, s)
    <2>1. i \in Slots
        <3>1. Head(ev) \in Evts
            BY <1>1, <1>2 DEF Others
        <3> QED BY <1>6, <3>1 DEF Evts
    <2> HIDE DEF i
    <2>2. DOMAIN s = SockFields /\ Lists(s) /\ s = slot[i]
        BY <1>1, <2>1 DEF Shape, Flows
    <2>3. \/ report_connect(i, s) \/ report_accept(i, s) \/ ReadEvent(i, s)
          \/ \E k \in Takes(s, Buffered(s)) : WriteEvent(i, s, k)
          \/ WriteFails(i, s)
        BY <1>6
    <2> HIDE DEF s
    <2>4. ASSUME Goes(i, Closed(s)), UNCHANGED <<alloc_id, known, wire>> PROVE PacketInv'
        <3>1. slot' = [slot EXCEPT ![i] = Closed(s)]
            BY <2>4 DEF Goes
        <3>2. Lists(Closed(s)) /\ Closed(s).type \in Idle
            BY <2>2, EmptyLists
        <3>3. Onward
            BY <1>1, <1>2, <2>4, OnwardTaken
        <3> QED BY <2>1, <2>4, <3>1, <3>2, <3>3, SlotEmpty
    <2>5. CASE report_connect(i, s)
        <3>1. s.type = "CONNECTING" /\ UNCHANGED <<alloc_id, known, wire>>
            BY <2>5 DEF report_connect
        <3>2. CASE Goes(i, [s EXCEPT !.type = "CONNECTED", !.write = Buffered(s) # << >>])
            <4> DEFINE p == [s EXCEPT !.type = "CONNECTED", !.write = Buffered(s) # << >>]
            <4>1. slot' = [slot EXCEPT ![i] = p]
                BY <3>2 DEF Goes
            <4>2. /\ p.type = "CONNECTED" /\ p.id = s.id /\ p.high = s.high /\ p.low = s.low
                  /\ p.wb_size = s.wb_size
                BY <2>2 DEF SockFields
            <4>3. p.type \in Types /\ slot[i].type \notin Idle
                BY <2>2, <3>1, <4>2 DEF Types, Idle
            <4>4. Onward
                BY <1>1, <1>2, <3>1, OnwardTaken
            <4> HIDE DEF p
            <4> QED BY <2>1, <2>2, <3>1, <4>1, <4>2, <4>3, <4>4, SocketStays
        <3> QED BY <2>4, <2>5, <3>1, <3>2 DEF report_connect
    <2>6. CASE report_accept(i, s)
        <3>1. wire' = wire
            BY <2>6 DEF report_accept
        <3>2. CASE alloc_id' <= MaxId /\ UNCHANGED <<slot, known>>
            BY <1>3, <3>1, <3>2
        <3>3. ASSUME NEW id \in FreeIds \cap Ids, alloc_id' = id,
                     \/ Abort
                     \/ /\ Buffered(slot[HASH_ID(id)]) = << >> /\ known' = known \cup {id}
                        /\ Goes(HASH_ID(id), NewFd([slot[HASH_ID(id)] EXCEPT !.id = id],
                                                   "PACCEPT", "TCP", FALSE))
              PROVE  PacketInv'
            <4>1. alloc_id' <= MaxId
                BY <3>3 DEF Ids
            <4> QED BY <1>2, <1>5, <3>1, <3>3, <4>1, AcceptPackets
        <3> QED BY <1>1, <2>6, <3>2, <3>3 DEF report_accept
    <2>7. CASE ReadEvent(i, s)
        BY <1>1, <1>3, <1>5, <2>4, <2>7 DEF ReadEvent, forward_message_tcp, forward_message_udp,
               ReadEnds, ReadKeeps
    <2>8. ASSUME NEW k \in Takes(s, Buffered(s)), WriteEvent(i, s, k) PROVE PacketInv'
        BY <1>2, <2>1, <2>2, <2>8, WritePackets
    <2>9. CASE WriteFails(i, s)
        BY <1>1, <1>5, <2>4, <2>9 DEF WriteFails
    <2> QED BY <2>3, <2>5, <2>6, <2>7, <2>8, <2>9
<1> QED BY <1>4, <1>6 DEF Event

-----------------------------------------------------------------------------
\* Nothing is sent or buffered at first.
LEMMA PacketInit ==
    ASSUME Init PROVE PacketInv
<1>1. \A i \in Slots : slot[i] = Fresh
    BY DEF Init
<1>2. Fresh.type = "INVALID" /\ Fresh.id = 0 /\ Fresh.high = << >> /\ Fresh.low = << >>
    BY DEF Fresh
<1>3. Lists(Fresh) /\ Fresh.type \in Idle
    BY <1>2, Nothing DEF Lists, Types, Idle
<1>4. Flows
    BY <1>1, <1>3 DEF Flows
<1>5. DOMAIN pipe = {} /\ alloc_id <= MaxId
    BY SocketAssumption DEF Init
<1>6. Numbers
    BY <1>5 DEF Numbers, Sends
<1>7. wire \in [Ids -> Seq(Bytes)] /\ \A d \in Ids : wire[d] = << >>
    BY Nothing DEF Init
<1>8. Wires
    BY <1>7, Nothing DEF Wires, Blocks
<1> QED BY <1>4, <1>5, <1>6, <1>8 DEF PacketInv

\* Every step keeps the packets whole and in order.
LEMMA PacketNext ==
    ASSUME SocketInv, PacketInv, [Next]_vars PROVE PacketInv'
<1>1. ASSUME UNCHANGED <<slot, alloc_id, known, pipe, left, wire>> PROVE PacketInv'
    <2>1. Onward
        BY <1>1, OnwardTaken DEF PacketInv
    <2> QED BY <1>1, <2>1, PacketIdle
<1>2. CASE \E w \in Workers : Request(w) \/ \E c \in Openings : Reserve(w, c)
    BY <1>2, RequestPackets, ReservePackets
<1>3. CASE \E id \in known : \/ \E c \in {"D", "P"} : Send(id, c)
                             \/ \E x \in BOOLEAN : Close(id, x)
                             \/ Start(id)
    BY <1>3, AskPackets
<1>4. CASE Command
    BY <1>4, CommandPackets
<1>5. CASE Clear
    BY <1>1, <1>5 DEF Clear
<1>6. CASE Event
    BY <1>6, EventPackets
<1>7. CASE \E batch \in (SUBSET Pollable) \ {{}} : Poll(batch)
    BY <1>1, <1>7 DEF Poll
<1>8. CASE UNCHANGED vars
    BY <1>1, <1>8 DEF vars
<1> QED BY <1>2, <1>3, <1>4, <1>5, <1>6, <1>7, <1>8 DEF Next

\* What a peer got is whole packets.
LEMMA WireWhole ==
    ASSUME NEW w \in Seq(Bytes), Pieces(w), NEW j \in DOMAIN w
    PROVE  IF w[j].b = 1 THEN j = 1 \/ w[j - 1].b = Size
           ELSE j > 1 /\ w[j - 1] = [w[j] EXCEPT !.b = @ - 1]
<1> DEFINE x == w[j]
           b == w[j].b
           l == Len(w)
<1>1. l \in Nat /\ j \in 1..l /\ j \in Nat
    OBVIOUS
<1>2. b \in Nat \ {0} /\ b <= Size /\ Size \in Nat \ {0}
    BY ByteParts
<1>3. b <= j /\ \A i \in 1..Size : j - b + i <= l => w[j - b + i] = Mate(x, i)
    BY DEF Pieces
<1>4. ASSUME b = 1, j # 1 PROVE w[j - 1].b = Size
    <2> DEFINE k == j - 1
    <2>1. k \in 1..(Len(w) - 1) /\ k + 1 = j
        <3> HIDE DEF b
        <3>1. k \in 1..(l - 1) /\ k + 1 = j
            <4> HIDE DEF l
            <4> QED BY <1>1, <1>4
        <3> QED BY <3>1
    <2> HIDE DEF k
    <2>2. w[k].b = Size <=> w[k + 1].b = 1
        BY <2>1, Boundary
    <2>3. w[k].b = Size
        BY <1>4, <2>1, <2>2
    <2> QED BY <2>3 DEF k
<1>5. ASSUME b # 1 PROVE j > 1 /\ w[j - 1] = [w[j] EXCEPT !.b = @ - 1]
    <2> DEFINE i == b - 1
    <2> HIDE DEF b, l
    <2>1. i \in 1..Size /\ j - b + i = j - 1 /\ j - b + i <= l /\ j > 1
        BY <1>1, <1>2, <1>3, <1>5
    <2>2. w[j - b + i] = Mate(x, i)
        BY <1>3, <2>1
    <2>3. Mate(x, i) = [x EXCEPT !.b = i]
        BY DEF Mate
    <2>4. [x EXCEPT !.b = i] = [w[j] EXCEPT !.b = @ - 1]
        BY DEF b
    <2> QED BY <2>1, <2>2, <2>3, <2>4
<1> QED BY <1>4, <1>5

\* The two invariants say what PacketsWhole does.
LEMMA PacketParts ==
    ASSUME SocketInv, PacketInv PROVE PacketsWhole
<1>1. Shape /\ Others /\ Wires /\ Flows /\ alloc_id <= MaxId
    BY DEF SocketInv, PacketInv
<1>2. alloc_id \in Nat /\ known \subseteq 1..alloc_id /\ MaxId \in Nat
    BY <1>1, SocketAssumption DEF Shape
<1>3. known \subseteq Ids
    BY <1>1, <1>2 DEF Ids
<1>4. TypeOK
    <2>1. ASSUME NEW i \in Slots
          PROVE  /\ slot[i].type \in Types /\ slot[i].id \in Ids \cup {0}
                 /\ slot[i].id # 0 => HASH_ID(slot[i].id) = i
        BY <1>1 DEF Shape, Flows, Lists
    <2>2. alloc_id \in 0..MaxId
        BY <1>1, <1>2
    <2>3. result \in Ids \cup {0}
        BY <1>1, <1>3 DEF Shape, Over
    <2>4. {pipe[j].id : j \in DOMAIN pipe} \subseteq known
        BY <1>1 DEF Shape
    <2>5. {ev[j].s : j \in DOMAIN ev} \subseteq Slots \cup {Pipe}
        <3>1. \A j \in DOMAIN ev : ev[j] \in Evts
            BY <1>1 DEF Others
        <3> QED BY <3>1 DEF Evts
    <2> QED BY <1>3, <2>1, <2>2, <2>3, <2>4, <2>5 DEF TypeOK
<1>5. BufferSize
    <2> SUFFICES ASSUME NEW i \in Slots, slot[i].type \in Live
                 PROVE  slot[i].wb_size = Len(Buffered(slot[i]))
        BY DEF BufferSize
    <2> DEFINE s == slot[i]
    <2>1. s.type \notin Idle
        BY DEF Live, Idle
    <2>2. Lists(s) /\ Flow(s, wire[s.id])
        BY <1>1, <2>1 DEF Flows
    <2> HIDE DEF s
    <2>3. s.high \in Seq(Bytes) /\ s.low \in Seq(Bytes) /\ s.wb_size = Len(s.high) + Len(s.low)
        BY <2>2 DEF Lists, Flow
    <2>4. Len(Buffered(s)) = Len(s.high) + Len(s.low)
        BY <2>3, Joined DEF Buffered
    <2>5. s.wb_size = Len(Buffered(s))
        BY <2>3, <2>4, Zenon
    <2> QED BY <2>5 DEF s
<1>6. ASSUME NEW id \in Ids, NEW j \in DOMAIN wire[id]
      PROVE  /\ IF wire[id][j].b = 1 THEN j = 1 \/ wire[id][j - 1].b = Size
                ELSE j > 1 /\ wire[id][j - 1] = [wire[id][j] EXCEPT !.b = @ - 1]
             /\ \A h \in 1..j - 1 : wire[id][h].low = wire[id][j].low =>
                   \/ wire[id][h].n < wire[id][j].n
                   \/ (wire[id][h].n = wire[id][j].n /\ wire[id][h].b < wire[id][j].b)
    <2> DEFINE w == wire[id]
    <2>1. w \in Seq(Bytes) /\ Pieces(w) /\ Rising(w) /\ j \in DOMAIN w
        BY <1>1 DEF Wires
    <2> HIDE DEF w
    <2>2. IF w[j].b = 1 THEN j = 1 \/ w[j - 1].b = Size
          ELSE j > 1 /\ w[j - 1] = [w[j] EXCEPT !.b = @ - 1]
        BY <2>1, WireWhole
    <2>3. \A h \in 1..j - 1 : w[h].low = w[j].low =>
             w[h].n < w[j].n \/ (w[h].n = w[j].n /\ w[h].b < w[j].b)
        BY <2>1 DEF Rising, Precedes
    <2> QED BY <2>2, <2>3 DEF w
<1>7. ASSUME NEW i \in Slots PROVE ~Uncomplete(slot[i].low)
    <2> DEFINE c == slot[i].low
    <2>1. c \in Seq(Bytes) /\ Blocks(c)
        BY <1>1 DEF Flows, Lists
    <2> HIDE DEF c
    <2>2. c # << >> => c[1].b = 1
        BY <2>1, BlocksBegin
    <2> QED BY <2>2 DEF Uncomplete, c
<1> QED BY <1>4, <1>5, <1>6, <1>7 DEF PacketsWhole

\* In every behaviour of the socket server, with any number of workers, slots
\* and ids, packets of any size and any length of pipe: the bytes that
\* send_socket, send_buffer and close_socket hand to the kernel for a socket
\* are whole packets one after the other, in the order the services sent
\* them at each priority, however the writes are cut short; what is left of
\* a low packet that was begun is raised, and wb_size is what is buffered.
THEOREM PacketsStayWhole == Spec => []PacketsWhole
<1>1. Init => SocketInv /\ PacketInv
    BY InvInit, PacketInit
<1>2. SocketInv /\ PacketInv /\ [Next]_vars => SocketInv' /\ PacketInv'
    BY InvNext, PacketNext
<1>3. SocketInv /\ PacketInv => PacketsWhole
    BY PacketParts
<1> QED BY <1>1, <1>2, <1>3, PTL DEF Spec

=============================================================================

--------------------------- MODULE MCSocketServer ---------------------------
(* Instances of SocketServer for TLC. *)
EXTENDS SocketServer

CONSTANT w1

(* What services ask for in a behaviour: a stream, a slot that is used      *)
(* again, a server, a change of owner, a datagram socket and a descriptor.  *)
Ask == [O |-> 0, L |-> 0, B |-> 0, U |-> 0, send |-> 0, close |-> 0, start |-> 0]
Stream == [Ask EXCEPT !.O = 1, !.send = 3, !.close = 1]
Reuse == [Ask EXCEPT !.O = 3, !.send = 1, !.close = 1]
Server == [Ask EXCEPT !.L = 1, !.send = 1, !.close = 1, !.start = 2]
Transfer == [Ask EXCEPT !.O = 1, !.send = 1, !.close = 2, !.start = 1]
Datagrams == [Ask EXCEPT !.U = 1, !.send = 2, !.close = 2]
Descriptor == [Ask EXCEPT !.B = 1, !.send = 2, !.close = 2]
AnyAsk == {Stream, Reuse, Server, Transfer, Datagrams, Descriptor}

=============================================================================

--------------------------- MODULE EchoProperties ---------------------------
(***************************************************************************)
(* What the coroutine sockets do for a server like the echo server.        *)
(***************************************************************************)
EXTENDS EchoServer

Contract ==
  INSTANCE EchoContract WITH
    heard <- taken,
    said <- output,
    broken <- [p \in Peers |-> peer[p] = "reset" \/ failed[p] > 0]

(* Accept loop, handlers and partial sends together are an echo: however
   async_write has to cut a buffer, and although its result is not looked at, the
   client gets the bytes it is to get, in their order, none twice and none left
   out, and all of them before more is read, until the connection breaks or a
   call on it fails; what has been sent by then was right. *)
ImplementsEcho == Contract!Spec

Running(p) == pc[p] \in {"start", "write", "read"}

(* An accepted socket has one handler, or is on its way to it through the
   promise of __async_accept; a socket that was not accepted has none. *)
OneHandlerEach ==
  \A p \in Peers :
    class[p] # "none" <=> \/ pc[p] # "none" /\ ~(loop = "spawn" /\ result = p)
                          \/ pc[p] = "none" /\ loop = "spawn" /\ result = p

(* A handler that runs has a descriptor that is open and nobody else's, also
   when the number was another connection's before, and a peer address; one that
   has ended has closed its own, although no destructor of a socket ever runs. *)
HandlersOwnSockets ==
  \A p \in Peers :
    /\ Running(p) =>
         /\ fd[p] \in open /\ handle[p] \in heap
         /\ \A o \in Objects \ {p} : fd[o] # fd[p]
         /\ \A q \in Peers \ {p} : Running(q) => handle[q] # handle[p]
    /\ pc[p] = "done" => fd[p] = NoFd

(* Open, without an object that knows it. *)
Lost == open \ {fd[o] : o \in Objects}

(* There are no more descriptors than one for the listener, one for each
   handler that runs and those without an owner. *)
TableFull == Cardinality({p \in Peers : Running(p)}) + 1 + Cardinality(Lost) >= Cardinality(Fds)

HandsOutNull == loop = "accept" /\ loop' = "spawn" /\ result' = NoPeer

(* The handler is given a null socket, and the process crashes, only when the
   server does not listen, when a call on the listener fails in that very step
   for reasons of its own, or when so many connections are being served at that
   moment that they use up the table: those that came and went have left nothing
   behind. *)
NullNeedsFullTable ==
  [][HandsOutNull =>
       \/ fd[Listener] = NoFd
       \/ failed'[Listener] > failed[Listener]
       \/ TableFull]_serverVars

(* A client that has connected is accepted, even if others are never heard of
   again, as long as there is a process. *)
AllAccepted ==
  \A p \in Peers : peer[p] # "away" ~> (class[p] # "none" \/ alive # "up")

(* A connection that broke, or that the client closed while it goes on reading,
   is closed by its handler and its descriptor is free again. *)
GoneIsClosed ==
  \A p \in Peers :
    peer[p] \in {"shut", "reset"} ~>
      \/ pc[p] = "done"
      \/ alive # "up"
      \/ peer[p] = "shut" /\ pc[p] = "write" /\ room[p] = 0
=============================================================================

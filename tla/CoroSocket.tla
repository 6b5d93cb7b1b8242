----------------------------- MODULE CoroSocket -----------------------------
(***************************************************************************)
(* The coroutine sockets of library/coro_sockets/coro_sys_socket.{h,cpp}:  *)
(* the accept loop of a server, and async_read and async_write over the    *)
(* connections it has accepted, each step one system call.  A call that    *)
(* would block has no step: the coroutine waits in the reactor, which      *)
(* CoroRuntime models, and the call is made again when it can succeed.     *)
(*                                                                         *)
(* The bytes of a connection are numbered in the order in which the server *)
(* is to send them, so a buffer is an interval: size bytes after from.     *)
(***************************************************************************)
EXTENDS SysSocket, Sequences

CONSTANTS
  Peers,        (* clients; each connects once, its socket object is Peer's *)
  Listener,     (* the server socket                                        *)
  NoPeer,       (* a null shared_ptr                                        *)
  Held,         (* descriptors the process may have before it starts a server *)
  BufSize,      (* the size of the buffers given to async_read              *)
  MaxFaults     (* bound: how often a call on a socket fails, see CallFails *)

ASSUME PeersAssumption ==
  /\ Objects = Peers \cup {Listener}
  /\ Listener \notin Peers /\ NoPeer \notin Peers
  /\ Held \subseteq Fds
  /\ BufSize \in Nat \ {0}
  /\ MaxFaults \in [Objects -> Nat]

VARIABLES
  loop,     (* where __accept_loop is: "off", "accept" or "spawn"           *)
  result,   (* what the last co_await __async_accept() has returned         *)
  peer,     (* the state of the client's end                                *)
  input,    (* how many bytes have arrived from it                          *)
  taken,    (* how many of them recv has returned                           *)
  room,     (* how many bytes the kernel takes for it                       *)
  output,   (* the bytes the kernel has taken, 0 for one that is not to be sent *)
  buffer,   (* arguments and local variable of async_write                  *)
  failed    (* ghost: how often a call on a socket has failed, see CallFails *)

loopVars == <<loop, result>>
inVars   == <<input, taken>>
outVars  == <<room, output, buffer>>
streamVars == <<peer, inVars, outVars, failed>>

Least(a, b) == IF a < b THEN a ELSE b

CoroSocketTypeOK ==
  /\ SocketTypeOK
  /\ loop \in {"off", "accept", "spawn"}
  /\ result \in Peers \cup {NoPeer}
  /\ peer \in [Peers -> {"away", "up", "shut", "reset"}]
  /\ input \in [Peers -> Nat] /\ taken \in [Peers -> Nat]
  /\ room \in [Peers -> Nat]
  /\ output \in [Peers -> Seq(Nat)]
  /\ buffer \in [Peers -> [from : Nat, size : Nat, sent : Nat, own : BOOLEAN]]
  /\ failed \in [Objects -> Nat]
  /\ \A p \in Peers : taken[p] <= input[p] /\ buffer[p].sent <= buffer[p].size

CoroSocketInit ==
  /\ class = [o \in Objects |-> IF o = Listener THEN "ServerSocket" ELSE "none"]
  /\ fd = [o \in Objects |-> NoFd] /\ handle = [o \in Objects |-> NoAddr]
  /\ open \in SUBSET Held
  /\ listening = {} /\ heap = {} /\ exposed = {}
  /\ loop = "off" /\ result = NoPeer
  /\ peer = [p \in Peers |-> "away"]
  /\ input = [p \in Peers |-> 0] /\ taken = [p \in Peers |-> 0]
  /\ room = [p \in Peers |-> 0]
  /\ output = [p \in Peers |-> <<>>]
  /\ buffer = [p \in Peers |-> [from |-> 0, size |-> 0, sent |-> 0, own |-> TRUE]]
  /\ failed = [o \in Objects |-> 0]

(* A call on the socket o fails on a connection that lives: accept4, recv or
   send for want of memory or the like, or epoll_ctl in the wait after EAGAIN,
   whose exception ends in the promise of the coroutine that awaits. *)
CallFails(o) ==
  /\ failed[o] < MaxFaults[o]
  /\ failed' = [failed EXCEPT ![o] = @ + 1]
  /\ UNCHANGED <<peer, inVars, room, output>>

-----------------------------------------------------------------------------
(* The accept loop. *)

(* Connected, and not accepted yet. *)
Backlog == {p \in Peers : peer[p] # "away" /\ class[p] = "none"}

(* CoroServerSocket::run_server, which listens first. *)
run_server ==
  /\ loop = "off"
  /\ listen(Listener)
  /\ loop' = "accept"
  /\ UNCHANGED <<result, streamVars>>

(* __async_accept comes to its co_return with the socket of p, of class c. *)
Accepted(p, c) ==
  /\ loop = "accept" /\ p \in Backlog
  /\ accept(Listener, p, c)
  /\ loop' = "spawn" /\ result' = p
  /\ UNCHANGED streamVars

async_accept(p) == Accepted(p, "CoroClientSocket")

(* accept() throws, because it does not listen or no descriptor is free:
   accept4 takes one before it looks whether anybody has connected.  The
   exception ends in the promise of __async_accept, and what co_await returns
   is the cached_value that was never set. *)
AcceptThrows ==
  /\ loop = "accept"
  /\ fd[Listener] = NoFd \/ open = Fds
  /\ loop' = "spawn" /\ result' = NoPeer
  /\ UNCHANGED <<sockVars, streamVars>>

(* accept4 fails otherwise, or the wait after its EAGAIN: the same null. *)
AcceptFails ==
  /\ loop = "accept" /\ fd[Listener] # NoFd
  /\ CallFails(Listener)
  /\ loop' = "spawn" /\ result' = NoPeer
  /\ UNCHANGED <<sockVars, buffer>>

(* spawn(callback(client_socket)), and on to the next one. *)
SpawnCallback ==
  /\ loop = "spawn"
  /\ loop' = "accept"
  /\ UNCHANGED <<result, sockVars, streamVars>>

-----------------------------------------------------------------------------
(* recv and send on a socket of whatever class. *)

(* Seeded fault: every -1 is taken for EAGAIN. *)
RecvRetriesErrors(p, n) ==
  /\ \/ n > 0 /\ n = Least(BufSize, input[p] - taken[p])
     \/ n = 0 /\ peer[p] = "shut" /\ input[p] = taken[p]
  /\ taken' = [taken EXCEPT ![p] = @ + n]
  /\ UNCHANGED <<peer, input, room, output, failed>>

(* recv returns n > 0 bytes, all there are up to the size of the buffer; or
   n = 0 stands for its 0 after the last byte, and for -1 after a reset, which
   may overtake the bytes. *)
Recv(p, n) ==
  /\ \/ n > 0 /\ n = Least(BufSize, input[p] - taken[p])
     \/ n = 0 /\ (peer[p] = "reset" \/ (peer[p] = "shut" /\ input[p] = taken[p]))
  /\ taken' = [taken EXCEPT ![p] = @ + n]
  /\ UNCHANGED <<peer, input, room, output, failed>>

(* recv fails, n = 0; or it would block and the wait fails: the result is a
   number that was never set, negative for n = 0, and nothing is in the buffer
   that was not in it before.  One beyond its size is as one within it. *)
RecvFails(p, n) ==
  /\ n = 0 \/ (peer[p] = "up" /\ input[p] = taken[p])
  /\ CallFails(p)

(* async_write(buffer, size) is called with the n bytes after position m, or
   with n bytes that are not the next ones. *)
BeginWrite(p, m, n) ==
  buffer' = [buffer EXCEPT ![p] = [from |-> m, size |-> n, sent |-> 0, own |-> TRUE]]
BeginStale(p, n) ==
  buffer' = [buffer EXCEPT ![p] = [from |-> 0, size |-> n, sent |-> 0, own |-> FALSE]]

Unsent(p) == buffer[p].size - buffer[p].sent

(* Seeded fault: "+ sent" is forgotten, and a rest is sent from the start. *)
SendRestarts(p) ==
  /\ peer[p] # "reset"
  /\ \E k \in 1 .. Least(room[p], Unsent(p)) :
       /\ output' = [output EXCEPT ![p] = @ \o [i \in 1 .. k |-> buffer[p].from + i]]
       /\ room' = [room EXCEPT ![p] = @ - k]
       /\ buffer' = [buffer EXCEPT ![p].sent = @ + k]
  /\ UNCHANGED <<peer, inVars, failed>>

(* The i-th byte of those that are left. *)
NextByte(p, i) == IF buffer[p].own THEN buffer[p].from + buffer[p].sent + i ELSE 0

(* send takes k > 0 bytes of those that are left. *)
Send(p) ==
  /\ peer[p] # "reset"
  /\ \E k \in 1 .. Least(room[p], Unsent(p)) :
       /\ output' = [output EXCEPT ![p] = @ \o [i \in 1 .. k |-> NextByte(p, i)]]
       /\ room' = [room EXCEPT ![p] = @ - k]
       /\ buffer' = [buffer EXCEPT ![p].sent = @ + k]
  /\ UNCHANGED <<peer, inVars, failed>>

(* send fails because the connection is broken. *)
SendFails(p) == peer[p] = "reset" /\ UNCHANGED streamVars

(* async_read returns n, ok unless a call fails on a connection that lives. *)
ReadReturns(p, n, ok) == IF ok THEN Recv(p, n) ELSE RecvFails(p, n)

async_read(p, n, ok) == class[p] = "CoroClientSocket" /\ ReadReturns(p, n, ok)

(* A turn of the loop of async_write that comes to a send.  If that takes some
   bytes the loop goes on or, with Unsent = 0, returns.  If the connection is
   gone or there is an error, of send or of the wait for room, async_write ends
   there, with -1 or a number that was never set. *)
WriteTurn(p, how) ==
  \/ how = "some" /\ Send(p)
  \/ how = "gone" /\ SendFails(p)
  \/ how = "error" /\ CallFails(p) /\ UNCHANGED buffer

async_write(p, how) == class[p] = "CoroClientSocket" /\ WriteTurn(p, how)

-----------------------------------------------------------------------------
(* The other end: it connects once the server listens, sends, closes its
   side, breaks the connection, and reads what the server has sent. *)
Connects(p, r) ==
  /\ peer[p] = "away" /\ fd[Listener] \in listening
  /\ peer' = [peer EXCEPT ![p] = "up"]
  /\ room' = [room EXCEPT ![p] = r]
  /\ UNCHANGED <<inVars, output, buffer, failed>>

Sends(p, most) ==
  /\ peer[p] = "up" /\ input[p] < most
  /\ input' = [input EXCEPT ![p] = @ + 1]
  /\ UNCHANGED <<peer, taken, outVars, failed>>

Shuts(p) ==
  /\ peer[p] = "up"
  /\ peer' = [peer EXCEPT ![p] = "shut"]
  /\ UNCHANGED <<inVars, outVars, failed>>

Resets(p) ==
  /\ peer[p] \in {"up", "shut"}
  /\ peer' = [peer EXCEPT ![p] = "reset"]
  /\ room' = [room EXCEPT ![p] = 0]
  /\ UNCHANGED <<inVars, output, buffer, failed>>

Reads(p, r) ==
  /\ peer[p] \in {"up", "shut"} /\ room[p] < r
  /\ room' = [room EXCEPT ![p] = @ + 1]
  /\ UNCHANGED <<peer, inVars, output, buffer, failed>>
=============================================================================

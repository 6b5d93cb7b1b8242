----------------------------- MODULE SysSocket -----------------------------
(***************************************************************************)
(* Who owns what in library/sys_socket/sys_socket.{h,cpp}: the descriptor  *)
(* of a Socket and the heap-allocated peer address of a ClientSocket,      *)
(* through listen, accept, close, moves and destructors, called in any     *)
(* order by the program.                                                   *)
(*                                                                         *)
(* Deleting an address that is not allocated is undefined behaviour.  Its  *)
(* outcomes range from nothing to the end of the process; the model goes   *)
(* on with nothing, and AddressesOwned says when it cannot come to that.   *)
(***************************************************************************)
EXTENDS Integers

CONSTANTS
  Objects,   (* places where socket objects may live                        *)
  Fds,       (* descriptor numbers of the process                           *)
  Addrs,     (* heap blocks for a sockaddr_in                               *)
  NoFd,      (* INVALID_FD                                                  *)
  NoAddr     (* nullptr                                                     *)

ASSUME SocketAssumption ==
  /\ Fds \subseteq Nat /\ NoFd \notin Fds
  /\ NoAddr \notin Addrs

VARIABLES
  class,     (* the class of the object, "none" where there is no object    *)
  fd,        (* Socket::socket_fd                                           *)
  handle,    (* ClientSocket::client_handle                                 *)
  open,      (* kernel: the open descriptors                                *)
  listening, (* kernel: those that listen                                   *)
  heap,      (* the allocated blocks                                        *)
  exposed    (* ghost: blocks whose address a close or a move left behind   *)

sockVars == <<class, fd, handle, open, listening, heap, exposed>>

ClientClasses == {"ClientSocket", "CoroClientSocket"}

SocketTypeOK ==
  /\ class \in [Objects -> ClientClasses \cup {"ServerSocket", "none"}]
  /\ fd \in [Objects -> Fds \cup {NoFd}]
  /\ handle \in [Objects -> Addrs \cup {NoAddr}]
  /\ open \subseteq Fds
  /\ listening \subseteq open
  /\ heap \subseteq Addrs
  /\ exposed \subseteq Addrs
  /\ \A o \in Objects :
       /\ class[o] \notin ClientClasses => handle[o] = NoAddr
       /\ class[o] = "none" => fd[o] = NoFd

SocketInit ==
  /\ class = [o \in Objects |-> "none"]
  /\ fd = [o \in Objects |-> NoFd]
  /\ handle = [o \in Objects |-> NoAddr]
  /\ open = {} /\ listening = {}
  /\ heap = {} /\ exposed = {}

-----------------------------------------------------------------------------
(* ServerSocket. *)

(* The kernel gives out the lowest descriptor that is free. *)
FreshFd == {f \in Fds \ open : \A g \in Fds \ open : f <= g}

NewServer(s) ==
  /\ class[s] = "none"
  /\ class' = [class EXCEPT ![s] = "ServerSocket"]
  /\ UNCHANGED <<fd, handle, open, listening, heap, exposed>>

(* listen() throws: socket() has failed, or a call after it, and then nobody
   closes listen_fd. *)
ListenFails(s) ==
  /\ class[s] = "ServerSocket"
  /\ open' \in {open} \cup {open \cup {f} : f \in FreshFd}
  /\ UNCHANGED <<class, fd, handle, listening, heap, exposed>>

(* A second listen() forgets the first descriptor. *)
listen(s) ==
  /\ class[s] = "ServerSocket"
  /\ \E f \in FreshFd :
       /\ open' = open \cup {f}
       /\ listening' = listening \cup {f}
       /\ fd' = [fd EXCEPT ![s] = f]
  /\ UNCHANGED <<class, handle, heap, exposed>>

(* ServerSocket::accept and CoroServerSocket::accept, which differ in the
   class c of the result: the object and its peer address are allocated. *)
accept(s, o, c) ==
  /\ class[s] = "ServerSocket" /\ fd[s] \in listening
  /\ class[o] = "none"
  /\ \E f \in FreshFd, a \in Addrs \ heap :
       /\ open' = open \cup {f}
       /\ fd' = [fd EXCEPT ![o] = f]
       /\ heap' = heap \cup {a}
       /\ handle' = [handle EXCEPT ![o] = a]
  /\ class' = [class EXCEPT ![o] = c]
  /\ UNCHANGED <<listening, exposed>>

-----------------------------------------------------------------------------
(* Closing. *)

(* Seeded fault: the number stays in the object. *)
Socket_closeKeepsFd(o) ==
  /\ open' = open \ {fd[o]}
  /\ listening' = listening \ {fd[o]}
  /\ UNCHANGED fd

(* Seeded fault: close() of the kernel is not called. *)
Socket_closeForgets(o) ==
  /\ fd' = [fd EXCEPT ![o] = NoFd]
  /\ UNCHANGED <<open, listening>>

(* Socket::close(), without effect on an invalid socket. *)
Socket_close(o) ==
  /\ open' = open \ {fd[o]}
  /\ listening' = listening \ {fd[o]}
  /\ fd' = [fd EXCEPT ![o] = NoFd]

(* ClientSocket::close() deletes the address and keeps the pointer. *)
ClientSocket_close(o) ==
  /\ class[o] = "ClientSocket"
  /\ heap' = heap \ {handle[o]}
  /\ exposed' = exposed \cup ({handle[o]} \ {NoAddr})
  /\ Socket_close(o)
  /\ UNCHANGED <<class, handle>>

(* Seeded fault: it deletes the address as ClientSocket::close() does. *)
CoroSocket_closeDeletes(o) ==
  /\ class[o] \in {"CoroClientSocket", "ServerSocket"}
  /\ heap' = heap \ {handle[o]}
  /\ Socket_close(o)
  /\ UNCHANGED <<class, handle, exposed>>

(* close() of CoroClientSocket and of the servers is Socket::close(). *)
CoroSocket_close(o) ==
  /\ class[o] \in {"CoroClientSocket", "ServerSocket"}
  /\ Socket_close(o)
  /\ UNCHANGED <<class, handle, heap, exposed>>

(* Seeded fault: the peer address outlives its object. *)
DestroyClientKeepsAddress(o) ==
  /\ class[o] \in ClientClasses
  /\ Socket_close(o)
  /\ class' = [class EXCEPT ![o] = "none"]
  /\ UNCHANGED <<heap, handle, exposed>>

(* ~ClientSocket, of CoroClientSocket as well, calls ClientSocket::close(). *)
DestroyClient(o) ==
  /\ class[o] \in ClientClasses
  /\ heap' = heap \ {handle[o]}
  /\ Socket_close(o)
  /\ class' = [class EXCEPT ![o] = "none"]
  /\ handle' = [handle EXCEPT ![o] = NoAddr]
  /\ UNCHANGED exposed

(* ~ServerSocket does not close. *)
DestroyServer(s) ==
  /\ class[s] = "ServerSocket"
  /\ class' = [class EXCEPT ![s] = "none"]
  /\ fd' = [fd EXCEPT ![s] = NoFd]
  /\ UNCHANGED <<handle, open, listening, heap, exposed>>

-----------------------------------------------------------------------------
(* Moves: the descriptor changes hands, the pointer to the address is copied. *)

MoveConstruct(o, p) ==
  /\ class[o] = "none" /\ class[p] # "none"
  /\ class' = [class EXCEPT ![o] = class[p]]
  /\ fd' = [fd EXCEPT ![o] = fd[p], ![p] = NoFd]
  /\ handle' = [handle EXCEPT ![o] = handle[p]]
  /\ exposed' = exposed \cup ({handle[p]} \ {NoAddr})
  /\ UNCHANGED <<open, listening, heap>>

(* What o held before is forgotten.  operator= of ServerSocket assigns only
   the address it serves, and does nothing here. *)
MoveAssign(o, p) ==
  /\ class[o] = class[p] /\ class[o] \in ClientClasses
  /\ fd' = [fd EXCEPT ![o] = fd[p], ![p] = NoFd]
  /\ handle' = [handle EXCEPT ![o] = handle[p]]
  /\ exposed' = exposed \cup ({handle[p]} \ {NoAddr})
  /\ UNCHANGED <<class, open, listening, heap>>

-----------------------------------------------------------------------------
SocketNext ==
  \E o \in Objects :
    \/ NewServer(o) \/ ListenFails(o) \/ listen(o)
    \/ ClientSocket_close(o) \/ CoroSocket_close(o)
    \/ DestroyClient(o) \/ DestroyServer(o)
    \/ \E p \in Objects :
         \/ \E c \in ClientClasses : accept(p, o, c)
         \/ MoveConstruct(o, p) \/ MoveAssign(o, p)

SocketSpec == SocketInit /\ [][SocketNext]_sockVars

-----------------------------------------------------------------------------
DescriptorsExclusive ==
  \A o \in Objects : fd[o] # NoFd =>
    /\ fd[o] \in open
    /\ \A p \in Objects : fd[p] = fd[o] => p = o

(* "After called listened, the socket can be valid in use". *)
ValidServersListen ==
  \A s \in Objects : class[s] = "ServerSocket" /\ fd[s] # NoFd => fd[s] \in listening

(* Whatever is moved, closed and destroyed, the descriptor of a valid socket
   is open and is that of no other socket, so that close() never closes a number
   the kernel has given to somebody else in the meantime; and a valid server
   listens, also after a listen() that failed. *)
DescriptorsOwned == DescriptorsExclusive /\ ValidServersListen

(* An address that neither ClientSocket::close() nor a move has left behind
   is allocated and belongs to one object: dump_self() reads it and the
   destructor deletes it once.  The two are the only ways to a double delete. *)
AddressesOwned ==
  \A o \in Objects : handle[o] \in Addrs \ exposed =>
    /\ handle[o] \in heap
    /\ \A p \in Objects : handle[p] = handle[o] => p = o

KeepsClientDescriptors ==
  \A o \in Objects :
    (class[o] \in ClientClasses /\ fd[o] \in open') =>
      \/ \E p \in Objects : fd'[p] = fd[o]
      \/ \E p \in Objects : MoveAssign(o, p)

(* The descriptor of a client socket is never left open without an owner,
   except when its object is overwritten by a move assignment. *)
NoClientDescriptorLost == [][KeepsClientDescriptors]_sockVars
=============================================================================

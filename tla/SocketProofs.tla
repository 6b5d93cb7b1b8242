---------------------------- MODULE SocketProofs ----------------------------
(***************************************************************************)
(* For any number of socket objects, descriptors and addresses: who owns   *)
(* what, whatever the program does with its sockets.  The four invariants  *)
(* are proved together, for the uniqueness of descriptors keeps listening  *)
(* descriptors open, and the types of the kernel's sets say that what it   *)
(* gives out is nobody's.                                                  *)
(***************************************************************************)
EXTENDS SysSocket, TLAPS

SocketInv == SocketTypeOK /\ DescriptorsExclusive /\ ValidServersListen /\ AddressesOwned

(* The classes that close() and the moves distinguish. *)
LEMMA Classes ==
  /\ "none" \notin ClientClasses /\ "ServerSocket" \notin ClientClasses
  /\ \A c \in ClientClasses : c = "ClientSocket" \/ c = "CoroClientSocket"
BY DEF ClientClasses

LEMMA SocketInitInv == SocketInit => SocketInv
BY SocketAssumption DEF SocketInit, SocketInv, SocketTypeOK, DescriptorsExclusive,
   ValidServersListen, AddressesOwned, ClientClasses

LEMMA TypeNext == SocketTypeOK /\ [SocketNext]_sockVars => SocketTypeOK'
<1> SUFFICES ASSUME SocketTypeOK, [SocketNext]_sockVars PROVE SocketTypeOK'
  OBVIOUS
<1> USE SocketAssumption DEF SocketTypeOK, ClientClasses
<1>1. ASSUME NEW o \in Objects, NewServer(o) PROVE SocketTypeOK'
  BY <1>1 DEF NewServer
<1>2. ASSUME NEW o \in Objects, ListenFails(o) PROVE SocketTypeOK'
  BY <1>2 DEF ListenFails, FreshFd
<1>3. ASSUME NEW o \in Objects, listen(o) PROVE SocketTypeOK'
  BY <1>3 DEF listen, FreshFd
<1>4. ASSUME NEW o \in Objects, ClientSocket_close(o) PROVE SocketTypeOK'
  BY <1>4 DEF ClientSocket_close, Socket_close
<1>5. ASSUME NEW o \in Objects, CoroSocket_close(o) PROVE SocketTypeOK'
  BY <1>5 DEF CoroSocket_close, Socket_close
<1>6. ASSUME NEW o \in Objects, DestroyClient(o) PROVE SocketTypeOK'
  BY <1>6 DEF DestroyClient, Socket_close
<1>7. ASSUME NEW o \in Objects, DestroyServer(o) PROVE SocketTypeOK'
  BY <1>7 DEF DestroyServer
<1>8. ASSUME NEW s \in Objects, NEW o \in Objects, NEW c \in ClientClasses, accept(s, o, c)
      PROVE  SocketTypeOK'
  BY <1>8 DEF accept, FreshFd
<1>9. ASSUME NEW o \in Objects, NEW p \in Objects, MoveConstruct(o, p) PROVE SocketTypeOK'
  BY <1>9 DEF MoveConstruct
<1>10. ASSUME NEW o \in Objects, NEW p \in Objects, MoveAssign(o, p) PROVE SocketTypeOK'
  BY <1>10 DEF MoveAssign
<1>11. CASE UNCHANGED sockVars
  BY <1>11 DEF sockVars
<1> QED BY <1>1, <1>2, <1>3, <1>4, <1>5, <1>6, <1>7, <1>8, <1>9, <1>10, <1>11 DEF SocketNext

LEMMA DescriptorsNext ==
  SocketTypeOK /\ DescriptorsExclusive /\ [SocketNext]_sockVars => DescriptorsExclusive'
<1> SUFFICES ASSUME SocketTypeOK, DescriptorsExclusive, [SocketNext]_sockVars
             PROVE  DescriptorsExclusive'
  OBVIOUS
<1> USE SocketAssumption DEF SocketTypeOK, DescriptorsExclusive, ClientClasses
<1>1. ASSUME NEW o \in Objects, NewServer(o) PROVE DescriptorsExclusive'
  BY <1>1 DEF NewServer
<1>2. ASSUME NEW o \in Objects, ListenFails(o) PROVE DescriptorsExclusive'
  BY <1>2 DEF ListenFails
<1>3. ASSUME NEW o \in Objects, listen(o) PROVE DescriptorsExclusive'
  BY <1>3 DEF listen, FreshFd
<1>4. ASSUME NEW o \in Objects, Socket_close(o) PROVE DescriptorsExclusive'
  BY <1>4 DEF Socket_close
<1>5. ASSUME NEW o \in Objects, DestroyServer(o) PROVE DescriptorsExclusive'
  BY <1>5 DEF DestroyServer
<1>6. ASSUME NEW s \in Objects, NEW o \in Objects, NEW c \in ClientClasses, accept(s, o, c)
      PROVE  DescriptorsExclusive'
  BY <1>6 DEF accept, FreshFd
<1>7. ASSUME NEW o \in Objects, NEW p \in Objects, MoveConstruct(o, p) PROVE DescriptorsExclusive'
  BY <1>7 DEF MoveConstruct
<1>8. ASSUME NEW o \in Objects, NEW p \in Objects, MoveAssign(o, p) PROVE DescriptorsExclusive'
  BY <1>8 DEF MoveAssign
<1>9. CASE UNCHANGED sockVars
  BY <1>9 DEF sockVars
<1> QED
  BY <1>1, <1>2, <1>3, <1>4, <1>5, <1>6, <1>7, <1>8, <1>9
  DEF SocketNext, ClientSocket_close, CoroSocket_close, DestroyClient

LEMMA ListeningNext ==
  SocketTypeOK /\ DescriptorsExclusive /\ ValidServersListen /\ [SocketNext]_sockVars
    => ValidServersListen'
<1> SUFFICES ASSUME SocketTypeOK, DescriptorsExclusive, ValidServersListen, [SocketNext]_sockVars
             PROVE  ValidServersListen'
  OBVIOUS
<1> USE SocketAssumption DEF SocketTypeOK, DescriptorsExclusive, ValidServersListen, ClientClasses
<1>1. ASSUME NEW o \in Objects, NewServer(o) PROVE ValidServersListen'
  BY <1>1 DEF NewServer
<1>2. ASSUME NEW o \in Objects, ListenFails(o) PROVE ValidServersListen'
  BY <1>2 DEF ListenFails
<1>3. ASSUME NEW o \in Objects, listen(o) PROVE ValidServersListen'
  BY <1>3 DEF listen, FreshFd
<1>4. ASSUME NEW o \in Objects, ClientSocket_close(o) PROVE ValidServersListen'
  BY <1>4 DEF ClientSocket_close, Socket_close
<1>5. ASSUME NEW o \in Objects, CoroSocket_close(o) PROVE ValidServersListen'
  BY <1>5 DEF CoroSocket_close, Socket_close
<1>6. ASSUME NEW o \in Objects, DestroyClient(o) PROVE ValidServersListen'
  BY <1>6 DEF DestroyClient, Socket_close
<1>7. ASSUME NEW o \in Objects, DestroyServer(o) PROVE ValidServersListen'
  BY <1>7 DEF DestroyServer
<1>8. ASSUME NEW s \in Objects, NEW o \in Objects, NEW c \in ClientClasses, accept(s, o, c)
      PROVE  ValidServersListen'
  BY <1>8 DEF accept, FreshFd
<1>9. ASSUME NEW o \in Objects, NEW p \in Objects, MoveConstruct(o, p) PROVE ValidServersListen'
  BY <1>9 DEF MoveConstruct
<1>10. ASSUME NEW o \in Objects, NEW p \in Objects, MoveAssign(o, p) PROVE ValidServersListen'
  BY <1>10 DEF MoveAssign
<1>11. CASE UNCHANGED sockVars
  BY <1>11 DEF sockVars
<1> QED BY <1>1, <1>2, <1>3, <1>4, <1>5, <1>6, <1>7, <1>8, <1>9, <1>10, <1>11 DEF SocketNext

LEMMA AddressesNext ==
  SocketTypeOK /\ AddressesOwned /\ [SocketNext]_sockVars => AddressesOwned'
<1> SUFFICES ASSUME SocketTypeOK, AddressesOwned, [SocketNext]_sockVars
             PROVE  AddressesOwned'
  OBVIOUS
<1> USE SocketAssumption DEF SocketTypeOK, AddressesOwned, ClientClasses
<1>1. ASSUME NEW o \in Objects, NewServer(o) PROVE AddressesOwned'
  BY <1>1 DEF NewServer
<1>2. ASSUME NEW o \in Objects, ListenFails(o) \/ listen(o) PROVE AddressesOwned'
  BY <1>2 DEF ListenFails, listen
<1>3. ASSUME NEW o \in Objects, ClientSocket_close(o) PROVE AddressesOwned'
  BY <1>3 DEF ClientSocket_close
<1>4. ASSUME NEW o \in Objects, CoroSocket_close(o) \/ DestroyServer(o) PROVE AddressesOwned'
  BY <1>4 DEF CoroSocket_close, DestroyServer
<1>5. ASSUME NEW o \in Objects, DestroyClient(o) PROVE AddressesOwned'
  BY <1>5 DEF DestroyClient
<1>6. ASSUME NEW s \in Objects, NEW o \in Objects, NEW c \in ClientClasses, accept(s, o, c)
      PROVE  AddressesOwned'
  BY <1>6 DEF accept
<1>7. ASSUME NEW o \in Objects, NEW p \in Objects, MoveConstruct(o, p) PROVE AddressesOwned'
  BY <1>7 DEF MoveConstruct
<1>8. ASSUME NEW o \in Objects, NEW p \in Objects, MoveAssign(o, p) PROVE AddressesOwned'
  BY <1>8 DEF MoveAssign
<1>9. CASE UNCHANGED sockVars
  BY <1>9 DEF sockVars
<1> QED BY <1>1, <1>2, <1>3, <1>4, <1>5, <1>6, <1>7, <1>8, <1>9 DEF SocketNext

LEMMA SocketNextInv == SocketInv /\ [SocketNext]_sockVars => SocketInv'
BY TypeNext, DescriptorsNext, ListeningNext, AddressesNext DEF SocketInv

LEMMA SocketInvariant == SocketSpec => []SocketInv
BY SocketInitInv, SocketNextInv, PTL DEF SocketSpec

(* Every variable of the sockets keeps its type. *)
THEOREM SocketTypeCorrect == SocketSpec => []SocketTypeOK
BY SocketInvariant, PTL DEF SocketInv

(* Whatever is moved, closed and destroyed, a valid socket has an open
   descriptor to itself (Socket::close, operator=), and a valid server listens,
   whichever calls of listen() have failed. *)
THEOREM DescriptorsHaveOwners == SocketSpec => []DescriptorsOwned
BY SocketInvariant, PTL DEF SocketInv, DescriptorsOwned

(* Without ClientSocket::close() and moves, addresses are deleted once. *)
THEOREM AddressesHaveOwners == SocketSpec => []AddressesOwned
BY SocketInvariant, PTL DEF SocketInv

(* Only a move assignment leaves the descriptor of a client socket open and
   without an owner. *)
THEOREM DescriptorsKept == SocketSpec => NoClientDescriptorLost
<1>1. SocketTypeOK /\ [SocketNext]_sockVars => [KeepsClientDescriptors]_sockVars
  <2> SUFFICES ASSUME SocketTypeOK, SocketNext,
                      NEW o \in Objects, class[o] \in ClientClasses, fd[o] \in open'
               PROVE  \/ \E p \in Objects : fd'[p] = fd[o]
                      \/ \E p \in Objects : MoveAssign(o, p)
    BY DEF KeepsClientDescriptors
  <2> USE SocketAssumption DEF SocketTypeOK, ClientClasses
  <2>1. ASSUME NEW q \in Objects, Socket_close(q) PROVE \E p \in Objects : fd'[p] = fd[o]
    <3>1. o # q \/ fd[o] = NoFd
      BY <2>1 DEF Socket_close
    <3> QED BY <2>1, <3>1 DEF Socket_close
  <2>2. ASSUME NEW q \in Objects, NewServer(q) \/ ListenFails(q) \/ listen(q) \/ DestroyServer(q)
        PROVE  fd'[o] = fd[o]
    BY <2>2 DEF NewServer, ListenFails, listen, DestroyServer
  <2>3. ASSUME NEW q \in Objects, NEW p \in Objects, NEW c \in ClientClasses, accept(p, q, c)
        PROVE  fd'[o] = fd[o]
    BY <2>3 DEF accept
  <2>4. ASSUME NEW q \in Objects, NEW p \in Objects, MoveConstruct(q, p)
        PROVE  \E r \in Objects : fd'[r] = fd[o]
    <3>1. q # o /\ q # p
      BY <2>4 DEF MoveConstruct
    <3>2. fd'[q] = fd[p] /\ (o # p => fd'[o] = fd[o])
      BY <2>4, <3>1 DEF MoveConstruct
    <3> QED BY <3>2
  <2>5. ASSUME NEW q \in Objects, NEW p \in Objects, MoveAssign(q, p), q # o
        PROVE  \E r \in Objects : fd'[r] = fd[o]
    <3>1. fd'[q] = fd[p] \/ q = p
      BY <2>5 DEF MoveAssign
    <3>2. o # p => fd'[o] = fd[o]
      BY <2>5 DEF MoveAssign
    <3> QED BY <2>5, <3>1, <3>2
  <2> QED
    BY <2>1, <2>2, <2>3, <2>4, <2>5
    DEF SocketNext, ClientSocket_close, CoroSocket_close, DestroyClient
<1> QED BY <1>1, SocketTypeCorrect, PTL DEF SocketSpec, NoClientDescriptorLost
=============================================================================

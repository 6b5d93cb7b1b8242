----------------------------- MODULE EchoProofs -----------------------------
(***************************************************************************)
(* For any number of clients and any bounds: the echo server gives each    *)
(* connection one handler with sockets of its own, runs out of descriptors *)
(* only by those in use, and is an echo.                                   *)
(***************************************************************************)
EXTENDS EchoProperties, SocketProofs, SequenceTheorems, FiniteSetTheorems

LEMMA Places ==
  /\ Listener \in Objects /\ Peers \subseteq Objects /\ Listener \notin Peers
  /\ NoPeer \notin Peers
BY PeersAssumption

(* What a handler does in a turn, with calls that fail and calls that do not. *)
Writes(p) == \E how \in {"some", "gone", "error"} : Write(p, how)
Echoes(p) == \E ok \in BOOLEAN : Echo(p, ok)
HangsUp(p) == \E ok \in BOOLEAN : HangUp(p, ok)

-----------------------------------------------------------------------------
(* The sockets of the echo server are used as SysSocket says. *)

LEMMA EchoInitSockets == EchoInit => SocketInv
BY Places, PeersAssumption, SocketAssumption
   DEF EchoInit, CoroSocketInit, SocketInv, SocketTypeOK, DescriptorsExclusive,
       ValidServersListen, AddressesOwned, ClientClasses

LEMMA SocketSteps == [EchoNext]_serverVars => [SocketNext]_sockVars
<1> SUFFICES ASSUME [EchoNext]_serverVars PROVE [SocketNext]_sockVars
  OBVIOUS
<1>1. CASE Main
  <2>1. listen(Listener) \/ UNCHANGED sockVars
    BY <1>1 DEF Main, run_server, helper_run_server
  <2> QED BY <2>1, Places DEF SocketNext
<1>2. CASE MainFails
  BY <1>2, Places DEF MainFails, SocketNext
<1>3. CASE AsyncAccept
  <2>1. CASE AcceptThrows
    BY <2>1 DEF AcceptThrows
  <2>2. CASE ~AcceptThrows
    <3>1. PICK p \in Peers : \E c \in ClientClasses : accept(Listener, p, c)
      BY <1>3, <2>2 DEF AsyncAccept, async_accept, helper_async_accept, Accepted, ClientClasses
    <3> QED BY <3>1, Places DEF SocketNext
  <2> QED BY <2>1, <2>2
<1>4. CASE Spawn
  BY <1>4 DEF Spawn, SpawnCallback
<1>5. CASE AsyncAcceptFails
  BY <1>5 DEF AsyncAcceptFails, AcceptFails
<1>6. ASSUME NEW p \in Peers, Greet(p) \/ Writes(p) \/ WriteKills(p) \/ Echoes(p)
      PROVE  UNCHANGED sockVars
  BY <1>6 DEF Greet, Writes, Write, WriteKills, Echoes, Echo
<1>7. ASSUME NEW p \in Peers, HangsUp(p) PROVE SocketNext
  BY <1>7, Places DEF HangsUp, HangUp, SocketNext
<1>8. ASSUME NEW p \in Peers, Client(p) PROVE UNCHANGED sockVars
  BY <1>8 DEF Client
<1>9. CASE UNCHANGED serverVars
  BY <1>9 DEF serverVars
<1> QED BY <1>1, <1>2, <1>3, <1>4, <1>5, <1>6, <1>7, <1>8, <1>9
        DEF EchoNext, Server, Handler, Fault, Writes, Echoes, HangsUp

-----------------------------------------------------------------------------
(* Types. *)

LoopTyped ==
  /\ loop \in {"off", "accept", "spawn"} /\ result \in Peers \cup {NoPeer}
  /\ api \in {"member", "helper"} /\ alive \in {"up", "failed", "crashed", "killed"}
  /\ pc \in [Peers -> {"none", "start", "write", "read", "done"}]

StreamTyped ==
  /\ peer \in [Peers -> {"away", "up", "shut", "reset"}]
  /\ input \in [Peers -> Nat] /\ taken \in [Peers -> Nat]
  /\ room \in [Peers -> Nat]
  /\ output \in [Peers -> Seq(Nat)]
  /\ buffer \in [Peers -> [from : Nat, size : Nat, sent : Nat, own : BOOLEAN]]
  /\ failed \in [Objects -> Nat]
  /\ \A p \in Peers : taken[p] <= input[p] /\ buffer[p].sent <= buffer[p].size

LEMMA TypeParts == SocketInv /\ LoopTyped /\ StreamTyped => EchoTypeOK
BY DEF SocketInv, LoopTyped, StreamTyped, EchoTypeOK, CoroSocketTypeOK

LEMMA EchoInitTyped == EchoInit => LoopTyped /\ StreamTyped
<1>1. EchoInit => LoopTyped
  BY DEF EchoInit, CoroSocketInit, LoopTyped
<1>2. EchoInit => StreamTyped
  <2>1. <<>> \in Seq(Nat)
    OBVIOUS
  <2> QED BY <2>1 DEF EchoInit, CoroSocketInit, StreamTyped
<1> QED BY <1>1, <1>2

LEMMA LoopTypedNext == LoopTyped /\ [EchoNext]_serverVars => LoopTyped'
<1> SUFFICES ASSUME LoopTyped, [EchoNext]_serverVars PROVE LoopTyped'
  OBVIOUS
<1> USE DEF LoopTyped
<1>1. CASE Main
  BY <1>1 DEF Main, run_server, helper_run_server, loopVars, handlerVars
<1>2. CASE MainFails
  BY <1>2 DEF MainFails, loopVars
<1>3. CASE AsyncAccept
  <2>1. CASE AcceptThrows
    BY <1>3, <2>1 DEF AcceptThrows, AsyncAccept, handlerVars
  <2>2. CASE ~AcceptThrows
    <3>1. PICK p \in Peers : loop' = "spawn" /\ result' = p
      BY <1>3, <2>2 DEF AsyncAccept, async_accept, helper_async_accept, Accepted
    <3> QED BY <1>3, <3>1 DEF AsyncAccept, handlerVars
  <2> QED BY <2>1, <2>2
<1>4. CASE Spawn
  BY <1>4 DEF Spawn, SpawnCallback, NullHandler
<1>5. CASE AsyncAcceptFails
  BY <1>5 DEF AsyncAcceptFails, AcceptFails, handlerVars
<1>6. ASSUME NEW p \in Peers, Greet(p) \/ Writes(p) \/ Echoes(p) \/ HangsUp(p) PROVE LoopTyped'
  <2>1. PICK place \in {"write", "read", "done"} : GoOn(p, place)
    BY <1>6 DEF Greet, Writes, Write, Echoes, Echo, HangsUp, HangUp
  <2>2. UNCHANGED loopVars
    BY <1>6 DEF Greet, Writes, Write, Echoes, Echo, HangsUp, HangUp, loopVars
  <2> QED BY <2>1, <2>2 DEF GoOn, loopVars
<1>7. ASSUME NEW p \in Peers, WriteKills(p) PROVE LoopTyped'
  BY <1>7 DEF WriteKills, loopVars
<1>8. ASSUME NEW p \in Peers, Client(p) PROVE LoopTyped'
  BY <1>8 DEF Client, loopVars, handlerVars
<1>9. CASE UNCHANGED serverVars
  BY <1>9 DEF serverVars, loopVars, handlerVars
<1> QED BY <1>1, <1>2, <1>3, <1>4, <1>5, <1>6, <1>7, <1>8, <1>9
        DEF EchoNext, Server, Handler, Fault, Writes, Echoes, HangsUp

-----------------------------------------------------------------------------
(* Handlers and their sockets. *)

(* The connection has been accepted and its handler has not ended. *)
Active(p) == class[p] # "none" /\ pc[p] # "done"

HandlersInv ==
  /\ OneHandlerEach
  /\ loop = "spawn" /\ result \in Peers => class[result] # "none" /\ pc[result] = "none"
  /\ \A p \in Peers : class[p] \in ClientClasses \cup {"none"}
  /\ \A p \in Peers : Active(p) =>
       /\ fd[p] # NoFd /\ handle[p] \in heap
       /\ \A q \in Peers \ {p} : Active(q) => handle[q] # handle[p]
  /\ \A p \in Peers : pc[p] = "done" => fd[p] = NoFd

LEMMA EchoInitHandlers == EchoInit => HandlersInv
<1> SUFFICES ASSUME EchoInit PROVE HandlersInv
  OBVIOUS
<1>1. loop = "off" /\ \A p \in Peers : class[p] = "none" /\ pc[p] = "none"
  BY Places DEF EchoInit, CoroSocketInit
<1> QED BY <1>1 DEF HandlersInv, OneHandlerEach, Active

(* Steps of the loop and of main() that touch no connection. *)
LEMMA HandlersListen ==
  ASSUME SocketInv, LoopTyped, HandlersInv, Main \/ MainFails
  PROVE  HandlersInv'
<1>1. loop = "off" /\ loop' \in {"off", "accept"}
  BY DEF Main, MainFails, run_server, helper_run_server, loopVars
<1>2. \A p \in Peers : fd'[p] = fd[p]
  BY Places DEF Main, MainFails, run_server, helper_run_server, listen, ListenFails, sockVars,
     SocketInv, SocketTypeOK
<1>3. UNCHANGED <<class, handle, heap, pc>>
  BY DEF Main, MainFails, run_server, helper_run_server, listen, ListenFails, sockVars,
     handlerVars
<1> QED BY <1>1, <1>2, <1>3 DEF HandlersInv, OneHandlerEach, Active

(* The new socket is handed on, with an address that is nobody's. *)
LEMMA HandlersAccept ==
  ASSUME SocketInv, LoopTyped, HandlersInv, AsyncAccept \/ AsyncAcceptFails
  PROVE  HandlersInv'
<1>1. loop = "accept" /\ loop' = "spawn" /\ pc' = pc
  BY DEF AsyncAccept, async_accept, helper_async_accept, Accepted, AcceptThrows, handlerVars,
     AsyncAcceptFails, AcceptFails
<1>2. CASE AcceptThrows \/ AcceptFails
  <2>1. result' = NoPeer /\ UNCHANGED sockVars
    BY <1>2 DEF AcceptThrows, AcceptFails
  <2> QED BY <1>1, <2>1, Places DEF HandlersInv, OneHandlerEach, Active, sockVars
<1>3. CASE ~(AcceptThrows \/ AcceptFails)
  <2>1. PICK p \in Peers, c \in ClientClasses : accept(Listener, p, c) /\ result' = p
    BY <1>3 DEF AsyncAcceptFails, AsyncAccept, async_accept, helper_async_accept, Accepted, ClientClasses
  <2>2. PICK f \in FreshFd, a \in Addrs \ heap :
          /\ fd' = [fd EXCEPT ![p] = f] /\ handle' = [handle EXCEPT ![p] = a]
          /\ heap' = heap \cup {a}
    BY <2>1 DEF accept
  <2>3. /\ class[p] = "none" /\ class' = [class EXCEPT ![p] = c]
        /\ c \in ClientClasses /\ c # "none" /\ f # NoFd /\ a \notin heap
    BY <2>1, <2>2, SocketAssumption DEF accept, FreshFd, ClientClasses
  <2>4. /\ class'[p] = c /\ fd'[p] = f /\ handle'[p] = a
        /\ \A q \in Peers \ {p} : class'[q] = class[q] /\ fd'[q] = fd[q] /\ handle'[q] = handle[q]
    BY <2>2, <2>3, Places DEF SocketInv, SocketTypeOK
  <2>5. pc[p] = "none"
    BY <1>1, <2>3 DEF HandlersInv, OneHandlerEach
  <2>6. OneHandlerEach'
    BY <1>1, <2>1, <2>3, <2>4, <2>5 DEF HandlersInv, OneHandlerEach
  <2>7. \A q \in Peers \ {p} : Active(q)' => Active(q)
    BY <1>1, <2>4 DEF Active
  <2>8. ASSUME NEW q \in Peers, Active(q)'
        PROVE  /\ fd'[q] # NoFd /\ handle'[q] \in heap'
               /\ \A r \in Peers \ {q} : Active(r)' => handle'[r] # handle'[q]
    BY <2>2, <2>3, <2>4, <2>7, <2>8 DEF HandlersInv
  <2> QED BY <1>1, <2>1, <2>3, <2>4, <2>5, <2>6, <2>8 DEF HandlersInv
<1> QED BY <1>2, <1>3

LEMMA HandlersSpawn ==
  ASSUME LoopTyped, HandlersInv, Spawn
  PROVE  HandlersInv'
<1>1. loop = "spawn" /\ loop' = "accept" /\ UNCHANGED <<class, fd, handle, heap, result>>
  BY DEF Spawn, SpawnCallback, sockVars
<1>2. CASE result = NoPeer
  <2>1. pc' = pc /\ result \notin Peers
    BY <1>2, Places DEF Spawn, NullHandler
  <2> QED BY <1>1, <2>1 DEF HandlersInv, OneHandlerEach, Active
<1>3. CASE result # NoPeer
  <2>1. result \in Peers /\ pc' = [pc EXCEPT ![result] = "start"]
    BY <1>3 DEF Spawn, LoopTyped
  <2>2. pc'[result] = "start" /\ \A q \in Peers \ {result} : pc'[q] = pc[q]
    BY <2>1 DEF LoopTyped
  <2>3. class[result] # "none" /\ pc[result] = "none"
    BY <1>1, <2>1 DEF HandlersInv
  <2>4. \A q \in Peers : Active(q)' <=> Active(q)
    BY <1>1, <2>2, <2>3 DEF Active
  <2>5. OneHandlerEach'
    BY <1>1, <2>1, <2>2, <2>3 DEF HandlersInv, OneHandlerEach
  <2> QED BY <1>1, <2>1, <2>2, <2>3, <2>4, <2>5 DEF HandlersInv
<1> QED BY <1>2, <1>3

(* A handler goes on, and stays one. *)
LEMMA HandlersGoOn ==
  ASSUME LoopTyped, HandlersInv, NEW p \in Peers, Greet(p) \/ Writes(p) \/ Echoes(p)
  PROVE  HandlersInv'
<1>1. PICK place \in {"write", "read"} : pc' = [pc EXCEPT ![p] = place]
  BY DEF Greet, Writes, Write, Echoes, Echo, GoOn
<1>2. pc[p] \in {"start", "write", "read"}
  BY DEF Greet, Writes, Write, Echoes, Echo
<1>3. UNCHANGED <<class, fd, handle, heap, loop, result>>
  BY DEF Greet, Writes, Write, Echoes, Echo, sockVars, loopVars
<1>4. pc'[p] = place /\ \A q \in Peers \ {p} : pc'[q] = pc[q]
  BY <1>1 DEF LoopTyped
<1>5. \A q \in Peers : Active(q)' <=> Active(q)
  BY <1>2, <1>3, <1>4 DEF Active
<1>6. OneHandlerEach'
  BY <1>2, <1>3, <1>4 DEF HandlersInv, OneHandlerEach
<1> QED BY <1>2, <1>3, <1>4, <1>5, <1>6 DEF HandlersInv

(* close() frees the address and the descriptor of its own connection only. *)
LEMMA HandlersHangUp ==
  ASSUME SocketInv, LoopTyped, HandlersInv, NEW p \in Peers, HangsUp(p)
  PROVE  HandlersInv'
<1>1. pc[p] = "read" /\ pc' = [pc EXCEPT ![p] = "done"]
  BY DEF HangsUp, HangUp, GoOn
<1>2. UNCHANGED <<class, handle, loop, result>>
  BY DEF HangsUp, HangUp, ClientSocket_close, CoroSocket_close, loopVars
<1>3. fd' = [fd EXCEPT ![p] = NoFd] /\ heap \ {handle[p]} \subseteq heap'
  BY DEF HangsUp, HangUp, ClientSocket_close, CoroSocket_close, Socket_close
<1>4. fd'[p] = NoFd /\ \A q \in Peers \ {p} : fd'[q] = fd[q]
  BY <1>3, Places DEF SocketInv, SocketTypeOK
<1>5. pc'[p] = "done" /\ \A q \in Peers \ {p} : pc'[q] = pc[q]
  BY <1>1 DEF LoopTyped
<1>6. class[p] # "none"
  BY DEF HangsUp, HangUp, ClientSocket_close, CoroSocket_close
<1>7. \A q \in Peers : Active(q)' => Active(q) /\ q # p
  BY <1>2, <1>5 DEF Active
<1>8. Active(p)
  BY <1>1, <1>6 DEF Active
<1>9. OneHandlerEach'
  BY <1>1, <1>2, <1>5, <1>6 DEF HandlersInv, OneHandlerEach
<1>10. ASSUME NEW q \in Peers, Active(q)'
       PROVE  /\ fd'[q] # NoFd /\ handle'[q] \in heap'
              /\ \A r \in Peers \ {q} : Active(r)' => handle'[r] # handle'[q]
  BY <1>2, <1>3, <1>4, <1>7, <1>8, <1>10 DEF HandlersInv
<1> QED BY <1>1, <1>2, <1>4, <1>5, <1>9, <1>10 DEF HandlersInv

LEMMA HandlersNext ==
  SocketInv /\ LoopTyped /\ HandlersInv /\ [EchoNext]_serverVars => HandlersInv'
<1> SUFFICES ASSUME SocketInv, LoopTyped, HandlersInv, [EchoNext]_serverVars PROVE HandlersInv'
  OBVIOUS
<1>1. ASSUME UNCHANGED sockVars, UNCHANGED loopVars, UNCHANGED pc PROVE HandlersInv'
  BY <1>1 DEF sockVars, loopVars, HandlersInv, OneHandlerEach, Active
<1>2. ASSUME NEW p \in Peers, WriteKills(p) \/ Client(p) PROVE HandlersInv'
  BY <1>1, <1>2 DEF WriteKills, Client, handlerVars
<1>3. CASE UNCHANGED serverVars
  BY <1>1, <1>3 DEF serverVars, handlerVars
<1>4. CASE Main \/ MainFails
  BY <1>4, HandlersListen
<1>5. CASE AsyncAccept \/ AsyncAcceptFails
  BY <1>5, HandlersAccept
<1>6. CASE Spawn
  BY <1>6, HandlersSpawn
<1>7. ASSUME NEW p \in Peers, Greet(p) \/ Writes(p) \/ Echoes(p) PROVE HandlersInv'
  BY <1>7, HandlersGoOn
<1>8. ASSUME NEW p \in Peers, HangsUp(p) PROVE HandlersInv'
  BY <1>8, HandlersHangUp
<1> QED BY <1>2, <1>3, <1>4, <1>5, <1>6, <1>7, <1>8
        DEF EchoNext, Server, Handler, Fault, Writes, Echoes, HangsUp

-----------------------------------------------------------------------------
(* The bytes of a connection. *)

(* The connection is not broken, and no call on it has failed. *)
Sound(p) == peer[p] # "reset" /\ failed[p] = 0

(* What the kernel has taken of a sound connection is a beginning of the right
   answer; async_write has its place in it, and before recv is called all of
   the answer so far has been sent. *)
BytesInv ==
  \A p \in Peers :
    /\ Sound(p) => \A k \in 1 .. Len(output[p]) : output[p][k] = k
    /\ pc[p] \in {"none", "start"} => output[p] = <<>> /\ taken[p] = 0
    /\ pc[p] = "write" /\ Sound(p) =>
         /\ Len(output[p]) = buffer[p].from + buffer[p].sent
         /\ buffer[p].from + buffer[p].size = Welcome + taken[p]
         /\ buffer[p].own
    /\ pc[p] = "read" /\ Sound(p) => Len(output[p]) = Welcome + taken[p]

LEMMA EchoInitBytes == EchoInit => BytesInv
BY DEF EchoInit, CoroSocketInit, BytesInv

(* A send appends the next bytes. *)
LEMMA SendAppends ==
  ASSUME StreamTyped, NEW p \in Peers, Send(p)
  PROVE  \E k \in 1 .. Unsent(p) :
           /\ output'[p] \in Seq(Nat) /\ Len(output'[p]) = Len(output[p]) + k
           /\ \A i \in 1 .. Len(output'[p]) : output'[p][i] =
                IF i <= Len(output[p]) THEN output[p][i] ELSE NextByte(p, i - Len(output[p]))
           /\ output' = [output EXCEPT ![p] = output'[p]]
           /\ room[p] - k \in Nat /\ room' = [room EXCEPT ![p] = room[p] - k]
           /\ buffer' = [buffer EXCEPT ![p] =
                [from |-> buffer[p].from, size |-> buffer[p].size, sent |-> buffer[p].sent + k,
                 own |-> buffer[p].own]]
<1>1. /\ output[p] \in Seq(Nat) /\ room[p] \in Nat
      /\ buffer[p] \in [from : Nat, size : Nat, sent : Nat, own : BOOLEAN]
      /\ buffer[p].sent <= buffer[p].size
  BY DEF StreamTyped
<1>2. PICK k \in 1 .. Least(room[p], Unsent(p)) :
        /\ output' = [output EXCEPT ![p] = @ \o [i \in 1 .. k |-> NextByte(p, i)]]
        /\ room' = [room EXCEPT ![p] = @ - k]
        /\ buffer' = [buffer EXCEPT ![p].sent = @ + k]
  BY DEF Send
<1> DEFINE part == [i \in 1 .. k |-> NextByte(p, i)]
<1>3. k \in 1 .. Unsent(p) /\ k <= room[p] /\ k \in Nat
  BY <1>1, <1>2 DEF Least, Unsent
<1>4. part \in Seq(Nat) /\ Len(part) = k
  <2>1. \A i \in 1 .. k : NextByte(p, i) \in Nat
    BY <1>1, <1>3 DEF NextByte
  <2> QED BY <1>3, <2>1
<1>5. output'[p] = output[p] \o part
  BY <1>2 DEF StreamTyped
<1>6. /\ output'[p] \in Seq(Nat) /\ Len(output'[p]) = Len(output[p]) + k
      /\ \A i \in 1 .. Len(output[p]) + k : output'[p][i] =
           IF i <= Len(output[p]) THEN output[p][i] ELSE part[i - Len(output[p])]
  BY <1>1, <1>4, <1>5, ConcatProperties
<1>7. ASSUME NEW i \in 1 .. Len(output'[p])
      PROVE  output'[p][i] = IF i <= Len(output[p]) THEN output[p][i]
                             ELSE NextByte(p, i - Len(output[p]))
  <2>1. i \in 1 .. Len(output[p]) + k /\ Len(output[p]) \in Nat
    BY <1>1, <1>6
  <2>2. CASE i <= Len(output[p])
    BY <1>6, <2>1, <2>2
  <2>3. CASE i > Len(output[p])
    <3>1. i - Len(output[p]) \in 1 .. k
      BY <1>3, <2>1, <2>3
    <3>2. part[i - Len(output[p])] = NextByte(p, i - Len(output[p]))
      BY <3>1
    <3>3. ~(i <= Len(output[p]))
      BY <2>1, <2>3
    <3>4. output'[p][i] = part[i - Len(output[p])]
      BY <1>6, <2>1, <3>3
    <3> QED BY <3>2, <3>3, <3>4
  <2> QED BY <2>1, <2>2, <2>3
<1>8. output' = [output EXCEPT ![p] = output'[p]]
  BY <1>2 DEF StreamTyped
<1>9. room[p] - k \in Nat /\ room' = [room EXCEPT ![p] = room[p] - k]
  BY <1>1, <1>2, <1>3
<1>10. buffer' = [buffer EXCEPT ![p] =
         [from |-> buffer[p].from, size |-> buffer[p].size, sent |-> buffer[p].sent + k,
          own |-> buffer[p].own]]
  <2>1. buffer' = [buffer EXCEPT ![p] = [buffer[p] EXCEPT !.sent = buffer[p].sent + k]]
    BY <1>2 DEF StreamTyped
  <2>2. [buffer[p] EXCEPT !.sent = buffer[p].sent + k] =
          [from |-> buffer[p].from, size |-> buffer[p].size, sent |-> buffer[p].sent + k,
           own |-> buffer[p].own]
    BY <1>1
  <2> QED BY <2>1, <2>2
<1> HIDE DEF part
<1> QED BY <1>3, <1>6, <1>7, <1>8, <1>9, <1>10

(* What recv returns was there. *)
LEMMA RecvTakes ==
  ASSUME StreamTyped, NEW p \in Peers, NEW n \in Nat, Recv(p, n)
  PROVE  /\ taken[p] + n <= input[p]
         /\ taken' = [taken EXCEPT ![p] = taken[p] + n]
         /\ UNCHANGED <<peer, input, room, output, failed>>
<1>1. taken[p] \in Nat /\ input[p] \in Nat /\ BufSize \in Nat /\ taken[p] <= input[p]
  BY PeersAssumption DEF StreamTyped
<1>2. taken[p] + n <= input[p]
  BY <1>1 DEF Recv, Least
<1> QED BY <1>2 DEF Recv

(* The handler gets the next bytes, or believes that there are some. *)
LEMMA EchoReads ==
  ASSUME NEW p \in Peers, Echoes(p)
  PROVE  \E n \in Nat : /\ n > 0
                        /\ \/ Recv(p, n) /\ BeginWrite(p, Welcome + taken[p], n)
                           \/ CallFails(p) /\ BeginStale(p, n)
<1>1. PICK ok \in BOOLEAN : Echo(p, ok)
  BY DEF Echoes
<1>2. PICK n \in 1 .. BufSize :
        /\ ReadReturns(p, n, ok)
        /\ \/ ok /\ BeginWrite(p, Welcome + taken[p], n)
           \/ ~ok /\ BeginStale(p, n)
  BY <1>1 DEF Echo, async_read, helper_async_read
<1>3. n \in Nat /\ n > 0
  BY PeersAssumption
<1> QED BY <1>2, <1>3 DEF ReadReturns, RecvFails

LEMMA HangUpReads ==
  ASSUME NEW p \in Peers, HangsUp(p)
  PROVE  UNCHANGED buffer /\ (CallFails(p) \/ \E n \in {0, 2} : Recv(p, n))
BY DEF HangsUp, HangUp, async_read, helper_async_read, ReadReturns, RecvFails

(* A call that fails takes and sends nothing. *)
LEMMA FaultTakes ==
  ASSUME StreamTyped, NEW o \in Objects, CallFails(o)
  PROVE  /\ failed' = [failed EXCEPT ![o] = failed[o] + 1] /\ failed' \in [Objects -> Nat]
         /\ failed'[o] > 0
         /\ UNCHANGED <<peer, input, taken, room, output>>
<1>1. failed \in [Objects -> Nat] /\ failed' = [failed EXCEPT ![o] = failed[o] + 1]
  BY DEF CallFails, StreamTyped
<1>2. failed[o] + 1 \in Nat /\ failed[o] + 1 > 0
  BY <1>1
<1>3. UNCHANGED <<peer, input, taken, room, output>>
  BY DEF CallFails, inVars
<1> QED BY <1>1, <1>2, <1>3

LEMMA StreamTypedNext == StreamTyped /\ [EchoNext]_serverVars => StreamTyped'
<1> SUFFICES ASSUME StreamTyped, [EchoNext]_serverVars PROVE StreamTyped'
  OBVIOUS
<1>1. ASSUME UNCHANGED streamVars PROVE StreamTyped'
  BY <1>1 DEF streamVars, inVars, outVars, StreamTyped
<1>2. CASE Main \/ MainFails \/ AsyncAccept \/ Spawn
  BY <1>1, <1>2 DEF Main, MainFails, AsyncAccept, Spawn, run_server,
     helper_run_server, async_accept, helper_async_accept, Accepted, AcceptThrows, SpawnCallback
<1>3. ASSUME NEW p \in Peers, Greet(p) PROVE StreamTyped'
  BY <1>3, EchoAssumption DEF Greet, BeginWrite, inVars, StreamTyped
<1>4. ASSUME NEW p \in Peers, Send(p) PROVE StreamTyped'
  <2>1. PICK k \in 1 .. Unsent(p) :
          /\ output'[p] \in Seq(Nat)
          /\ output' = [output EXCEPT ![p] = output'[p]]
          /\ room[p] - k \in Nat /\ room' = [room EXCEPT ![p] = room[p] - k]
          /\ buffer' = [buffer EXCEPT ![p] =
               [from |-> buffer[p].from, size |-> buffer[p].size, sent |-> buffer[p].sent + k,
                own |-> buffer[p].own]]
    BY <1>4, SendAppends
  <2>2. /\ buffer[p].from \in Nat /\ buffer[p].size \in Nat /\ buffer[p].sent \in Nat
        /\ buffer[p].own \in BOOLEAN
    BY DEF StreamTyped
  <2>3. k \in Nat /\ buffer[p].sent + k \in Nat /\ buffer[p].sent + k <= buffer[p].size
    BY <2>1, <2>2 DEF Unsent
  <2>4. UNCHANGED <<peer, input, taken, failed>>
    BY <1>4 DEF Send, inVars
  <2>5. output' \in [Peers -> Seq(Nat)] /\ room' \in [Peers -> Nat]
    BY <2>1 DEF StreamTyped
  <2>6. buffer' \in [Peers -> [from : Nat, size : Nat, sent : Nat, own : BOOLEAN]]
    BY <2>1, <2>2, <2>3 DEF StreamTyped
  <2>7. \A q \in Peers : buffer'[q].sent <= buffer'[q].size
    BY <2>1, <2>3 DEF StreamTyped
  <2> QED BY <2>4, <2>5, <2>6, <2>7 DEF StreamTyped
<1>5. ASSUME NEW p \in Peers, NEW n \in Nat, Recv(p, n),
             UNCHANGED buffer \/ (BeginWrite(p, Welcome + taken[p], n))
      PROVE  StreamTyped'
  <2>1. /\ taken[p] + n <= input[p] /\ taken' = [taken EXCEPT ![p] = taken[p] + n]
        /\ UNCHANGED <<peer, input, room, output, failed>>
    BY <1>5, RecvTakes
  <2>2. taken[p] + n \in Nat /\ taken' \in [Peers -> Nat]
        /\ \A q \in Peers : taken'[q] <= input'[q]
    BY <2>1 DEF StreamTyped
  <2>3. Welcome + taken[p] \in Nat
    BY EchoAssumption DEF StreamTyped
  <2>4. /\ buffer' \in [Peers -> [from : Nat, size : Nat, sent : Nat, own : BOOLEAN]]
        /\ \A q \in Peers : buffer'[q].sent <= buffer'[q].size
    <3>1. CASE UNCHANGED buffer
      BY <3>1 DEF StreamTyped
    <3>2. CASE BeginWrite(p, Welcome + taken[p], n)
      BY <2>3, <3>2 DEF BeginWrite, StreamTyped
    <3> QED BY <1>5, <3>1, <3>2
  <2> QED BY <2>1, <2>2, <2>4 DEF StreamTyped
<1>6. ASSUME NEW o \in Objects, CallFails(o),
              UNCHANGED buffer \/ \E p \in Peers, n \in Nat : BeginStale(p, n)
       PROVE  StreamTyped'
  <2>1. failed' \in [Objects -> Nat] /\ UNCHANGED <<peer, input, taken, room, output>>
    BY <1>6, FaultTakes
  <2>2. /\ buffer' \in [Peers -> [from : Nat, size : Nat, sent : Nat, own : BOOLEAN]]
        /\ \A q \in Peers : buffer'[q].sent <= buffer'[q].size
    <3>1. CASE UNCHANGED buffer
      BY <3>1 DEF StreamTyped
    <3>2. ASSUME NEW p \in Peers, NEW n \in Nat, BeginStale(p, n)
          PROVE  /\ buffer' \in [Peers -> [from : Nat, size : Nat, sent : Nat, own : BOOLEAN]]
                 /\ \A q \in Peers : buffer'[q].sent <= buffer'[q].size
      BY <3>2 DEF BeginStale, StreamTyped
    <3> QED BY <1>6, <3>1, <3>2
  <2> QED BY <2>1, <2>2 DEF StreamTyped
<1>7. CASE AsyncAcceptFails
  BY <1>6, <1>7, Places DEF AsyncAcceptFails, AcceptFails
<1>8. ASSUME NEW p \in Peers, Writes(p) PROVE StreamTyped'
  <2>1. Send(p) \/ SendFails(p) \/ (CallFails(p) /\ UNCHANGED buffer)
    BY <1>8 DEF Writes, Write, async_write, helper_async_write, WriteTurn
  <2>2. CASE CallFails(p) /\ UNCHANGED buffer
    BY <1>6, <2>2, Places
  <2> QED BY <1>1, <1>4, <2>1, <2>2 DEF SendFails
<1>9. ASSUME NEW p \in Peers, WriteKills(p) PROVE StreamTyped'
  BY <1>1, <1>9 DEF WriteKills, SendFails
<1>10. ASSUME NEW p \in Peers, Echoes(p) PROVE StreamTyped'
  <2>1. PICK n \in Nat : \/ Recv(p, n) /\ BeginWrite(p, Welcome + taken[p], n)
                         \/ CallFails(p) /\ BeginStale(p, n)
    BY <1>10, EchoReads
  <2>2. CASE CallFails(p) /\ BeginStale(p, n)
    BY <1>6, <2>2, Places
  <2> QED BY <1>5, <2>1, <2>2
<1>11. ASSUME NEW p \in Peers, HangsUp(p) PROVE StreamTyped'
  <2>1. UNCHANGED buffer /\ (CallFails(p) \/ \E n \in {0, 2} : Recv(p, n))
    BY <1>11, HangUpReads
  <2>2. CASE CallFails(p)
    BY <1>6, <2>1, <2>2, Places
  <2> QED BY <1>5, <2>1, <2>2
<1>12. ASSUME NEW p \in Peers, Client(p) PROVE StreamTyped'
  <2>1. MaxRoom \in Nat /\ MaxIn[p] \in Nat
    BY EchoAssumption
  <2>2. CASE Connects(p, MaxRoom)
    BY <2>1, <2>2 DEF Connects, inVars, StreamTyped
  <2>5. CASE Resets(p)
    BY <2>5 DEF Resets, inVars, StreamTyped
  <2>6. CASE Reads(p, MaxRoom)
    <3>1. room[p] + 1 \in Nat
      BY DEF StreamTyped
    <3> QED BY <2>6, <3>1 DEF Reads, inVars, StreamTyped
  <2>3. CASE Sends(p, MaxIn[p])
    BY <2>1, <2>3 DEF Sends, outVars, StreamTyped
  <2>4. CASE Shuts(p)
    BY <2>4 DEF Shuts, inVars, outVars, StreamTyped
  <2> QED BY <1>12, <2>2, <2>3, <2>4, <2>5, <2>6 DEF Client
<1>13. CASE UNCHANGED serverVars
  BY <1>1, <1>13 DEF serverVars
<1> QED BY <1>2, <1>3, <1>8, <1>9, <1>10, <1>11, <1>12, <1>13, <1>7
        DEF EchoNext, Server, Handler, Fault, Writes, Echoes, HangsUp

(* A step of p alone, which leaves the other connections as they are. *)
LEMMA BytesOfOne ==
  ASSUME BytesInv, NEW p \in Peers,
         \A q \in Peers \ {p} :
           UNCHANGED <<output[q], pc[q], peer[q], taken[q], buffer[q], failed[q]>>,
         /\ Sound(p)' => \A k \in 1 .. Len(output'[p]) : output'[p][k] = k
         /\ pc'[p] \in {"none", "start"} => output'[p] = <<>> /\ taken'[p] = 0
         /\ pc'[p] = "write" /\ Sound(p)' =>
              /\ Len(output'[p]) = buffer'[p].from + buffer'[p].sent
              /\ buffer'[p].from + buffer'[p].size = Welcome + taken'[p]
              /\ buffer'[p].own
         /\ pc'[p] = "read" /\ Sound(p)' => Len(output'[p]) = Welcome + taken'[p]
  PROVE  BytesInv'
BY DEF BytesInv, Sound

(* A call on p fails in a handler, which then works on. *)
LEMMA BytesFault ==
  ASSUME LoopTyped, StreamTyped, BytesInv, NEW p \in Peers, CallFails(p),
         UNCHANGED buffer \/ \E n \in Nat : BeginStale(p, n),
         NEW place \in {"write", "read", "done"}, pc' = [pc EXCEPT ![p] = place]
  PROVE  BytesInv'
<1>1. /\ failed' = [failed EXCEPT ![p] = failed[p] + 1] /\ failed'[p] > 0
      /\ UNCHANGED <<peer, input, taken, room, output>>
  BY FaultTakes, Places
<1>2. pc'[p] = place /\ \A q \in Peers \ {p} : pc'[q] = pc[q]
  BY DEF LoopTyped
<1>3. \A q \in Peers \ {p} : buffer'[q] = buffer[q]
  BY DEF BeginStale, StreamTyped
<1>4. \A q \in Peers \ {p} : failed'[q] = failed[q]
  BY <1>1, Places DEF StreamTyped
<1>5. ~Sound(p)'
  <2>1. failed'[p] \in Nat /\ (failed'[p] > 0 => failed'[p] # 0)
    BY <1>1, Places, FaultTakes
  <2> QED BY <1>1, <2>1 DEF Sound
<1>6. \A q \in Peers \ {p} :
        UNCHANGED <<output[q], pc[q], peer[q], taken[q], buffer[q], failed[q]>>
  BY <1>1, <1>2, <1>3, <1>4
<1> QED BY <1>2, <1>5, <1>6, BytesOfOne

LEMMA BytesGreet ==
  ASSUME LoopTyped, StreamTyped, BytesInv, NEW p \in Peers, Greet(p)
  PROVE  BytesInv'
<1>1. output[p] = <<>> /\ taken[p] = 0 /\ UNCHANGED <<output, taken, peer, failed>>
  BY DEF Greet, BytesInv, inVars
<1>2. pc' = [pc EXCEPT ![p] = "write"]
      /\ buffer' = [buffer EXCEPT ![p] =
           [from |-> 0, size |-> Welcome, sent |-> 0, own |-> TRUE]]
  BY DEF Greet, GoOn, BeginWrite
<1>3. pc'[p] = "write" /\ buffer'[p] = [from |-> 0, size |-> Welcome, sent |-> 0, own |-> TRUE]
  BY <1>2 DEF LoopTyped, StreamTyped
<1>4. Len(output'[p]) = 0 + 0 /\ 0 + Welcome = Welcome + taken'[p]
  BY <1>1, EchoAssumption
<1>5. \A q \in Peers \ {p} :
        UNCHANGED <<output[q], pc[q], peer[q], taken[q], buffer[q], failed[q]>>
  BY <1>1, <1>2 DEF LoopTyped, StreamTyped
<1>6. \A k \in 1 .. Len(output'[p]) : output'[p][k] = k
  BY <1>1
<1> QED BY <1>3, <1>4, <1>5, <1>6, BytesOfOne

LEMMA BytesWrite ==
  ASSUME LoopTyped, StreamTyped, BytesInv, NEW p \in Peers, Writes(p)
  PROVE  BytesInv'
<1>1. pc[p] = "write"
  BY DEF Writes, Write
<1>2. CASE CallFails(p) /\ UNCHANGED buffer /\ GoOn(p, "read")
  BY <1>2, BytesFault DEF GoOn
<1>3. CASE SendFails(p) /\ GoOn(p, "read")
  <2>1. UNCHANGED <<output, peer, taken, buffer, failed>> /\ pc' = [pc EXCEPT ![p] = "read"]
        /\ peer[p] = "reset"
    BY <1>3 DEF SendFails, streamVars, inVars, outVars, GoOn
  <2>2. pc'[p] = "read" /\ \A q \in Peers \ {p} : pc'[q] = pc[q]
    BY <2>1 DEF LoopTyped
  <2> QED BY <2>1, <2>2, BytesOfOne DEF BytesInv, Sound
<1>4. CASE Send(p) /\ GoOn(p, IF buffer'[p].sent < buffer'[p].size THEN "write" ELSE "read")
  <2> DEFINE place == IF buffer'[p].sent < buffer'[p].size THEN "write" ELSE "read"
  <2>1. PICK k \in 1 .. Unsent(p) :
           /\ output'[p] \in Seq(Nat) /\ Len(output'[p]) = Len(output[p]) + k
           /\ \A i \in 1 .. Len(output'[p]) : output'[p][i] =
                IF i <= Len(output[p]) THEN output[p][i] ELSE NextByte(p, i - Len(output[p]))
           /\ output' = [output EXCEPT ![p] = output'[p]]
           /\ buffer' = [buffer EXCEPT ![p] =
                [from |-> buffer[p].from, size |-> buffer[p].size, sent |-> buffer[p].sent + k,
                 own |-> buffer[p].own]]
    BY <1>4, SendAppends
  <2>2. UNCHANGED <<peer, taken, failed>> /\ (Sound(p)' <=> Sound(p))
    BY <1>4 DEF Send, inVars, Sound
  <2>3. pc' = [pc EXCEPT ![p] = place] /\ place \in {"write", "read"}
    BY <1>4 DEF GoOn
  <2>4. pc'[p] = place
    BY <2>3 DEF LoopTyped
  <2>5. \A q \in Peers \ {p} :
          UNCHANGED <<output[q], pc[q], peer[q], taken[q], buffer[q], failed[q]>>
    BY <2>1, <2>2, <2>3 DEF LoopTyped, StreamTyped
  <2> HIDE DEF place
  <2>6. CASE ~Sound(p)
    BY <2>2, <2>3, <2>4, <2>5, <2>6, BytesOfOne
  <2>7. CASE Sound(p)
    <3>1. /\ Len(output[p]) = buffer[p].from + buffer[p].sent
          /\ buffer[p].from + buffer[p].size = Welcome + taken[p]
          /\ buffer[p].own
          /\ \A i \in 1 .. Len(output[p]) : output[p][i] = i
      BY <1>1, <2>7 DEF BytesInv
    <3>2. /\ Len(output[p]) \in Nat /\ buffer[p].from \in Nat /\ buffer[p].size \in Nat
          /\ buffer[p].sent \in Nat /\ taken[p] \in Nat /\ Welcome \in Nat
      BY EchoAssumption DEF StreamTyped
    <3>3. k \in Nat /\ k <= buffer[p].size - buffer[p].sent
      BY <2>1, <3>2 DEF Unsent
    <3>4. buffer'[p] = [from |-> buffer[p].from, size |-> buffer[p].size,
                        sent |-> buffer[p].sent + k, own |-> buffer[p].own]
      BY <2>1 DEF StreamTyped
    <3>5. ASSUME NEW i \in 1 .. Len(output'[p]) PROVE output'[p][i] = i
      <4>1. i \in Nat /\ 1 <= i
        BY <2>1, <3>2
      <4>2. CASE i <= Len(output[p])
        <5>1. i \in 1 .. Len(output[p])
          BY <3>2, <4>1, <4>2
        <5>2. output'[p][i] = output[p][i]
          BY <2>1, <4>2
        <5> QED BY <3>1, <5>1, <5>2
      <4>3. CASE ~(i <= Len(output[p]))
        <5>1. output'[p][i] = buffer[p].from + buffer[p].sent + (i - Len(output[p]))
          BY <2>1, <3>1, <4>3 DEF NextByte
        <5> QED BY <3>1, <3>2, <4>1, <5>1
      <4> QED BY <4>2, <4>3
    <3>6. Len(output'[p]) = buffer'[p].from + buffer'[p].sent
      <4>1. buffer'[p].from = buffer[p].from /\ buffer'[p].sent = buffer[p].sent + k
        BY <3>4
      <4>2. Len(output'[p]) = (buffer[p].from + buffer[p].sent) + k
        BY <2>1, <3>1
      <4> QED BY <3>2, <3>3, <4>1, <4>2
    <3>7. buffer'[p].from + buffer'[p].size = Welcome + taken'[p]
      BY <2>2, <3>1, <3>4
    <3>8. place = "read" => Len(output'[p]) = Welcome + taken'[p]
      <4>1. place = "read" => ~(buffer[p].sent + k < buffer[p].size)
        BY <3>4 DEF place
      <4>2. place = "read" => buffer[p].sent + k = buffer[p].size
        BY <3>2, <3>3, <4>1
      <4> QED BY <3>4, <3>6, <3>7, <4>2
    <3>9. buffer'[p].own
      BY <3>1, <3>4
    <3> QED BY <2>3, <2>4, <2>5, <3>5, <3>6, <3>7, <3>8, <3>9, BytesOfOne
  <2> QED BY <2>6, <2>7
<1> QED BY <1>2, <1>3, <1>4 DEF Writes, Write, async_write, helper_async_write, WriteTurn

LEMMA BytesEcho ==
  ASSUME LoopTyped, StreamTyped, BytesInv, NEW p \in Peers, Echoes(p)
  PROVE  BytesInv'
<1>1. PICK n \in Nat : \/ Recv(p, n) /\ BeginWrite(p, Welcome + taken[p], n)
                       \/ CallFails(p) /\ BeginStale(p, n)
  BY EchoReads
<1>2. pc[p] = "read" /\ pc' = [pc EXCEPT ![p] = "write"]
  BY DEF Echoes, Echo, GoOn
<1>3. CASE CallFails(p) /\ BeginStale(p, n)
  BY <1>2, <1>3, BytesFault
<1>4. CASE Recv(p, n) /\ BeginWrite(p, Welcome + taken[p], n)
  <2>1. taken' = [taken EXCEPT ![p] = taken[p] + n] /\ UNCHANGED <<peer, output, failed>>
    BY <1>4, RecvTakes
  <2>2. pc'[p] = "write" /\ taken'[p] = taken[p] + n
        /\ buffer'[p] = [from |-> Welcome + taken[p], size |-> n, sent |-> 0, own |-> TRUE]
    BY <1>2, <1>4, <2>1 DEF BeginWrite, LoopTyped, StreamTyped
  <2>3. \A q \in Peers \ {p} :
          UNCHANGED <<output[q], pc[q], peer[q], taken[q], buffer[q], failed[q]>>
    BY <1>2, <1>4, <2>1 DEF BeginWrite, LoopTyped, StreamTyped
  <2>4. taken[p] \in Nat /\ Welcome \in Nat
    BY EchoAssumption DEF StreamTyped
  <2>5. Sound(p)' => /\ Len(output'[p]) = Welcome + taken[p] + 0
                     /\ Welcome + taken[p] + n = Welcome + taken'[p]
                     /\ \A k \in 1 .. Len(output'[p]) : output'[p][k] = k
    BY <1>2, <2>1, <2>2, <2>4 DEF BytesInv, Sound
  <2> QED BY <2>1, <2>2, <2>3, <2>5, BytesOfOne
<1> QED BY <1>1, <1>3, <1>4

LEMMA BytesHangUp ==
  ASSUME LoopTyped, StreamTyped, BytesInv, NEW p \in Peers, HangsUp(p)
  PROVE  BytesInv'
<1>1. pc' = [pc EXCEPT ![p] = "done"] /\ UNCHANGED buffer
  BY DEF HangsUp, HangUp, GoOn
<1>2. CASE CallFails(p)
  BY <1>1, <1>2, BytesFault
<1>3. CASE ~CallFails(p)
  <2>1. PICK n \in {0, 2} : Recv(p, n)
    BY <1>3, HangUpReads
  <2>2. taken' = [taken EXCEPT ![p] = taken[p] + n] /\ UNCHANGED <<peer, output, failed>>
    BY <2>1, RecvTakes
  <2>3. pc'[p] = "done"
    BY <1>1 DEF LoopTyped
  <2>4. \A q \in Peers \ {p} :
          UNCHANGED <<output[q], pc[q], peer[q], taken[q], buffer[q], failed[q]>>
    BY <1>1, <2>2 DEF LoopTyped, StreamTyped
  <2>5. Sound(p)' => \A k \in 1 .. Len(output'[p]) : output'[p][k] = k
    BY <2>2 DEF BytesInv, Sound
  <2> QED BY <2>3, <2>4, <2>5, BytesOfOne
<1> QED BY <1>2, <1>3

(* The client changes nothing here, but may break the connection. *)
LEMMA BytesClient ==
  ASSUME StreamTyped, BytesInv, NEW p \in Peers, Client(p)
  PROVE  BytesInv'
<1>1. UNCHANGED <<output, pc, taken, buffer, failed>>
  BY DEF Client, Connects, Sends, Shuts, Resets, Reads, handlerVars, inVars, outVars
<1>2. \A q \in Peers : peer[q] = "reset" => peer'[q] = "reset"
  BY DEF Client, Connects, Sends, Shuts, Resets, Reads, StreamTyped
<1> QED BY <1>1, <1>2 DEF BytesInv, Sound

(* A handler starts on a connection of which nothing has been taken. *)
LEMMA BytesSpawn ==
  ASSUME LoopTyped, HandlersInv, BytesInv, Spawn
  PROVE  BytesInv'
<1>1. UNCHANGED <<output, peer, taken, buffer, failed>> /\ loop = "spawn"
  BY DEF Spawn, SpawnCallback, streamVars, inVars, outVars
<1>2. CASE result = NoPeer
  BY <1>1, <1>2 DEF Spawn, NullHandler, BytesInv, Sound
<1>3. CASE result # NoPeer
  <2>1. result \in Peers /\ pc' = [pc EXCEPT ![result] = "start"]
    BY <1>3 DEF Spawn, LoopTyped
  <2>2. pc'[result] = "start" /\ \A q \in Peers \ {result} : pc'[q] = pc[q]
    BY <2>1 DEF LoopTyped
  <2>3. pc[result] = "none"
    BY <1>1, <2>1 DEF HandlersInv
  <2> QED BY <1>1, <2>1, <2>2, <2>3 DEF BytesInv, Sound
<1> QED BY <1>2, <1>3

LEMMA BytesNext ==
  LoopTyped /\ StreamTyped /\ HandlersInv /\ BytesInv /\ [EchoNext]_serverVars => BytesInv'
<1> SUFFICES ASSUME LoopTyped, StreamTyped, HandlersInv, BytesInv, [EchoNext]_serverVars
             PROVE  BytesInv'
  OBVIOUS
<1>1. ASSUME UNCHANGED streamVars, UNCHANGED pc PROVE BytesInv'
  BY <1>1 DEF streamVars, inVars, outVars, BytesInv, Sound
<1>2. CASE Main \/ MainFails \/ AsyncAccept
  BY <1>1, <1>2 DEF Main, MainFails, AsyncAccept, run_server, handlerVars,
     helper_run_server, async_accept, helper_async_accept, Accepted, AcceptThrows
<1>3. CASE Spawn
  BY <1>3, BytesSpawn
<1>4. ASSUME NEW p \in Peers, Greet(p) \/ Writes(p) \/ Echoes(p) \/ HangsUp(p) PROVE BytesInv'
  BY <1>4, BytesGreet, BytesWrite, BytesEcho, BytesHangUp
<1>5. ASSUME NEW p \in Peers, WriteKills(p) PROVE BytesInv'
  BY <1>1, <1>5 DEF WriteKills, SendFails
<1>6. ASSUME NEW p \in Peers, Client(p) PROVE BytesInv'
  BY <1>6, BytesClient
<1>7. CASE UNCHANGED serverVars
  BY <1>1, <1>7 DEF serverVars, handlerVars
<1>8. CASE AsyncAcceptFails
  <2>1. UNCHANGED <<output, peer, taken, buffer, pc>> /\ \A q \in Peers : failed'[q] = failed[q]
    BY <1>8, FaultTakes, Places DEF AsyncAcceptFails, AcceptFails, handlerVars, StreamTyped
  <2> QED BY <2>1 DEF BytesInv, Sound
<1> QED BY <1>2, <1>3, <1>4, <1>5, <1>6, <1>7, <1>8
        DEF EchoNext, Server, Handler, Fault, Writes, Echoes, HangsUp

-----------------------------------------------------------------------------
(* Null sockets. *)

LEMMA LostFinite ==
  SocketInv => IsFiniteSet(Lost) /\ Cardinality(Lost) \in Nat
<1> SUFFICES ASSUME SocketInv PROVE IsFiniteSet(Lost) /\ Cardinality(Lost) \in Nat
  OBVIOUS
<1>1. Lost \in SUBSET Fds
  BY DEF SocketInv, SocketTypeOK, Lost
<1>2. IsFiniteSet(Lost)
  BY <1>1, EchoAssumption, FS_Subset
<1> QED BY <1>2, FS_CardinalityType

Serving == {p \in Peers : Running(p)}

(* Handlers that run have descriptors of their own, so they are finitely many. *)
LEMMA ServingFinite ==
  ASSUME SocketInv, LoopTyped, HandlersInv
  PROVE  IsFiniteSet(Serving) /\ Cardinality(Serving) \in Nat
<1> DEFINE owned == [p \in Serving |-> fd[p]]
<1>1. ASSUME NEW p \in Serving PROVE fd[p] \in Fds /\ \A q \in Serving : fd[q] = fd[p] => q = p
  <2>1. p \in Peers /\ Active(p)
    BY <1>1 DEF Serving, HandlersInv, OneHandlerEach, Running, Active
  <2>2. fd[p] # NoFd
    BY <2>1 DEF HandlersInv
  <2>3. Serving \subseteq Objects
    BY Places DEF Serving
  <2> QED BY <2>2, <2>3 DEF SocketInv, SocketTypeOK, DescriptorsExclusive
<1>2. owned \in Injection(Serving, Fds)
  BY <1>1 DEF Injection, IsInjective
<1>3. IsFiniteSet(Serving)
  BY <1>2, EchoAssumption, FS_Injection
<1> QED BY <1>3, FS_CardinalityType

(* When the kernel has no descriptor left, each belongs to the listener, to a
   handler that runs, or to nobody. *)
LEMMA FullTable ==
  ASSUME SocketInv, LoopTyped, HandlersInv, loop = "accept", open = Fds
  PROVE  TableFull
<1> DEFINE Owners == Serving \cup {Listener}
           owned == [o \in Owners |-> fd[o]]
           Owned == {fd[o] : o \in Owners}
<1>1. IsFiniteSet(Owners) /\ Cardinality(Owners) = Cardinality(Serving) + 1
  <2>1. Listener \notin Serving
    BY Places DEF Serving
  <2> QED BY <2>1, ServingFinite, FS_AddElement
<1>2. IsFiniteSet(Owned) /\ Cardinality(Owned) <= Cardinality(Owners)
  <2>1. owned \in Surjection(Owners, Owned)
    BY DEF Surjection
  <2> QED BY <1>1, <2>1, FS_Surjection
<1>3. Fds \subseteq Lost \cup Owned
  <2> SUFFICES ASSUME NEW f \in Fds, f \notin Lost PROVE f \in Owned
    OBVIOUS
  <2>1. PICK o \in Objects : f = fd[o]
    BY DEF Lost
  <2>2. f # NoFd
    BY SocketAssumption
  <2>3. CASE o \in Peers
    <3>1. class[o] # "none" /\ pc[o] # "done"
      BY <2>1, <2>2, <2>3 DEF SocketInv, SocketTypeOK, HandlersInv
    <3>2. Running(o)
      BY <2>3, <3>1 DEF HandlersInv, OneHandlerEach, LoopTyped, Running
    <3> QED BY <2>1, <2>3, <3>2 DEF Serving
  <2>4. CASE o = Listener
    BY <2>1, <2>4
  <2> QED BY <2>3, <2>4, PeersAssumption
<1>4. IsFiniteSet(Lost) /\ Cardinality(Lost) \in Nat
  BY LostFinite
<1> HIDE DEF Owned, Owners
<1>5. IsFiniteSet(Lost \cup Owned) /\ Cardinality(Lost \cup Owned) <= Cardinality(Lost) + Cardinality(Owned)
  <2>1. /\ IsFiniteSet(Lost \cup Owned)
        /\ Cardinality(Lost \cup Owned) = Cardinality(Lost) + Cardinality(Owned) - Cardinality(Lost \cap Owned)
    BY <1>2, <1>4, FS_Union
  <2>2. IsFiniteSet(Lost \cap Owned)
    BY <1>4, FS_Intersection
  <2>3. Cardinality(Lost \cap Owned) \in Nat /\ Cardinality(Owned) \in Nat
    BY <1>2, <2>2, FS_CardinalityType
  <2>4. \A a, b, c \in Nat : a + b - c <= a + b
    OBVIOUS
  <2> QED BY <1>4, <2>1, <2>3, <2>4
<1>6. Cardinality(Fds) <= Cardinality(Lost \cup Owned)
  BY <1>3, <1>5, FS_Subset
<1>7. /\ Cardinality(Fds) \in Nat /\ Cardinality(Lost \cup Owned) \in Nat
      /\ Cardinality(Owned) \in Nat /\ Cardinality(Serving) \in Nat
  BY <1>2, <1>5, EchoAssumption, ServingFinite, FS_CardinalityType
<1>8. \A n, u, l, w, s \in Nat : n <= u /\ u <= l + w /\ w <= s + 1 => s + 1 + l >= n
  OBVIOUS
<1> QED BY <1>1, <1>2, <1>4, <1>5, <1>6, <1>7, <1>8 DEF TableFull, Serving

-----------------------------------------------------------------------------
(* The invariant. *)

EchoInv == SocketInv /\ LoopTyped /\ StreamTyped /\ HandlersInv /\ BytesInv

LEMMA EchoInvariant == EchoSpec => []EchoInv
<1>1. EchoInit => EchoInv
  BY EchoInitSockets, EchoInitTyped, EchoInitHandlers, EchoInitBytes DEF EchoInv
<1>2. EchoInv /\ [EchoNext]_serverVars => EchoInv'
  BY SocketSteps, SocketNextInv, LoopTypedNext, StreamTypedNext, HandlersNext, BytesNext
     DEF EchoInv
<1> QED BY <1>1, <1>2, PTL DEF EchoSpec

(* Every variable of the echo server keeps its type: no more is taken of a
   connection than has arrived, and nothing is sent from beyond a buffer. *)
THEOREM EchoTypeCorrect == EchoSpec => []EchoTypeOK
<1>1. EchoInv => EchoTypeOK
  BY TypeParts DEF EchoInv
<1> QED BY <1>1, EchoInvariant, PTL

(* Each accepted socket gets one handler (__accept_loop, spawn), for any
   number of clients and on either interface. *)
THEOREM HandlersAreUnique == EchoSpec => []OneHandlerEach
<1>1. EchoInv => OneHandlerEach
  BY DEF EchoInv, HandlersInv
<1> QED BY <1>1, EchoInvariant, PTL

(* The socket of a running handler is open and shared with nobody, and the
   handler that ends has closed it (handle_client). *)
THEOREM HandlersKeepSockets == EchoSpec => []HandlersOwnSockets
<1>1. EchoInv => HandlersOwnSockets
  <2> SUFFICES ASSUME EchoInv PROVE HandlersOwnSockets
    OBVIOUS
  <2>1. ASSUME NEW p \in Peers, Running(p) PROVE Active(p)
    BY <2>1 DEF EchoInv, HandlersInv, OneHandlerEach, Running, Active
  <2>2. ASSUME NEW p \in Peers, Running(p)
        PROVE  fd[p] \in open /\ \A o \in Objects \ {p} : fd[o] # fd[p]
    <3>1. fd[p] # NoFd
      BY <2>1, <2>2 DEF EchoInv, HandlersInv
    <3> QED BY <3>1, Places DEF EchoInv, SocketInv, DescriptorsExclusive
  <2>3. ASSUME NEW p \in Peers, Running(p)
        PROVE  handle[p] \in heap /\ \A q \in Peers \ {p} : Running(q) => handle[q] # handle[p]
    BY <2>1, <2>3 DEF EchoInv, HandlersInv
  <2>4. \A p \in Peers : pc[p] = "done" => fd[p] = NoFd
    BY DEF EchoInv, HandlersInv
  <2> QED BY <2>2, <2>3, <2>4 DEF HandlersOwnSockets
<1> QED BY <1>1, EchoInvariant, PTL

(* Only __async_accept hands a null socket on. *)
LEMMA NullStep ==
  EchoInv /\ [EchoNext]_serverVars =>
    [HandsOutNull =>
       \/ fd[Listener] = NoFd
       \/ failed'[Listener] > failed[Listener]
       \/ TableFull]_serverVars
<1> SUFFICES ASSUME EchoInv, [EchoNext]_serverVars, HandsOutNull
             PROVE  \/ fd[Listener] = NoFd
                    \/ failed'[Listener] > failed[Listener]
                    \/ TableFull
  OBVIOUS
<1>1. loop = "accept" /\ loop' = "spawn" /\ result' = NoPeer
  BY DEF HandsOutNull
<1>2. CASE AsyncAccept
  <2>1. CASE AcceptThrows
    BY <1>1, <2>1, FullTable DEF AcceptThrows, EchoInv
  <2>2. CASE ~AcceptThrows
    <3>1. PICK p \in Peers : result' = p
      BY <1>2, <2>2 DEF AsyncAccept, async_accept, helper_async_accept, Accepted
    <3> QED BY <1>1, <3>1, Places
  <2> QED BY <2>1, <2>2
<1>3. CASE AsyncAcceptFails
  <2>1. failed'[Listener] = failed[Listener] + 1 /\ failed[Listener] \in Nat
    BY <1>3, Places DEF AsyncAcceptFails, AcceptFails, CallFails, EchoInv, StreamTyped
  <2> QED BY <2>1
<1>4. CASE Main \/ MainFails \/ Spawn
  BY <1>1, <1>4 DEF Main, MainFails, Spawn, SpawnCallback, run_server, helper_run_server, loopVars
<1>5. ASSUME NEW p \in Peers,
             Greet(p) \/ Writes(p) \/ WriteKills(p) \/ Echoes(p) \/ HangsUp(p) \/ Client(p)
      PROVE  FALSE
  <2>1. loop' = loop
    BY <1>5 DEF Greet, Writes, Write, WriteKills, Echoes, Echo, HangsUp, HangUp, Client, loopVars
  <2> QED BY <1>1, <2>1
<1>6. CASE UNCHANGED serverVars
  BY <1>1, <1>6 DEF serverVars, loopVars
<1> QED BY <1>2, <1>3, <1>4, <1>5, <1>6
        DEF EchoNext, Server, Handler, Fault, Writes, Echoes, HangsUp

(* When no call on the listener fails, accept4 in __async_accept yields a null
   socket only at a moment at which the handlers that run, the listener and the
   descriptors nobody owns use up the table, for any number of clients that
   came and went before and any limit of descriptors: handle_client gives back
   what __accept_loop has handed it. *)
THEOREM NullSocketsExplained == EchoSpec => NullNeedsFullTable
BY NullStep, EchoInvariant, PTL DEF EchoSpec, NullNeedsFullTable

-----------------------------------------------------------------------------
(* The server is an echo.  Only what is taken, sent or broken shows: Write is
   Say, recv is Hear, a reset or a call that fails is Break, what is sent later
   is Slip, and all else stutters. *)

brokenNow == [p \in Peers |-> peer[p] = "reset" \/ failed[p] > 0]

LEMMA EchoStutters ==
  ASSUME UNCHANGED <<peer, taken, output, failed>>
  PROVE  UNCHANGED Contract!echoVars
BY DEF Contract!echoVars

LEMMA SoundMeans ==
  ASSUME StreamTyped, NEW p \in Peers
  PROVE  Sound(p) <=> ~brokenNow[p]
<1>1. failed[p] \in Nat
  BY Places DEF StreamTyped
<1>2. failed[p] = 0 <=> ~(failed[p] > 0)
  BY <1>1
<1> QED BY <1>2 DEF Sound, brokenNow

LEMMA FaultBreaks ==
  ASSUME EchoInv, NEW p \in Peers, CallFails(p)
  PROVE  Contract!Break(p) \/ UNCHANGED Contract!echoVars
<1>1. /\ failed' = [failed EXCEPT ![p] = failed[p] + 1] /\ failed'[p] > 0
      /\ UNCHANGED <<peer, taken, output>>
  BY FaultTakes, Places DEF EchoInv
<1>2. \A q \in Peers \ {p} : failed'[q] = failed[q]
  BY <1>1, Places DEF EchoInv, StreamTyped
<1>3. brokenNow' = [brokenNow EXCEPT ![p] = TRUE]
  BY <1>1, <1>2 DEF brokenNow
<1>4. CASE ~brokenNow[p]
  BY <1>1, <1>3, <1>4 DEF Contract!Break, brokenNow
<1>5. CASE brokenNow[p]
  <2>1. brokenNow[p] = TRUE
    BY <1>5 DEF brokenNow
  <2>2. brokenNow' = brokenNow
    BY <1>3, <2>1 DEF brokenNow
  <2> QED BY <1>1, <2>2 DEF Contract!echoVars, brokenNow
<1> QED BY <1>4, <1>5

(* On a sound connection a send says the next bytes. *)
LEMMA SendSays ==
  ASSUME EchoInv, NEW p \in Peers, Writes(p), Send(p)
  PROVE  Contract!Say(p) \/ Contract!Slip(p)
<1>1. PICK k \in 1 .. Unsent(p) :
         /\ output'[p] \in Seq(Nat) /\ Len(output'[p]) = Len(output[p]) + k
         /\ \A i \in 1 .. Len(output'[p]) : output'[p][i] =
              IF i <= Len(output[p]) THEN output[p][i] ELSE NextByte(p, i - Len(output[p]))
         /\ output' = [output EXCEPT ![p] = output'[p]]
  BY SendAppends DEF EchoInv
<1>2. UNCHANGED <<peer, taken, failed>> /\ brokenNow' = brokenNow
  BY DEF Send, inVars, brokenNow
<1>3. /\ Len(output[p]) \in Nat /\ buffer[p].from \in Nat /\ buffer[p].size \in Nat
      /\ buffer[p].sent \in Nat /\ taken[p] \in Nat /\ Welcome \in Nat
  BY EchoAssumption DEF EchoInv, StreamTyped
<1>4. k \in Nat /\ 1 <= k /\ k <= buffer[p].size - buffer[p].sent
  BY <1>1, <1>3 DEF Unsent
<1>5. CASE Sound(p)
  <2>1. /\ Len(output[p]) = buffer[p].from + buffer[p].sent
        /\ buffer[p].from + buffer[p].size = Welcome + taken[p]
    BY <1>5 DEF EchoInv, BytesInv, Writes, Write
  <2>2. Len(output'[p]) \in Len(output[p]) + 1 .. Welcome + taken[p]
    <3>1. Len(output[p]) + k <= Welcome + taken[p]
      <4>1. ASSUME NEW from \in Nat, NEW size \in Nat, NEW done \in Nat, NEW j \in Nat,
                   j <= size - done
            PROVE  (from + done) + j <= from + size
        BY <4>1
      <4> QED BY <1>3, <1>4, <2>1, <4>1
    <3> QED BY <1>1, <1>3, <1>4, <3>1
  <2>3. BytesInv' /\ Sound(p)'
    BY <1>2, <1>5, BytesWrite DEF EchoInv, Sound
  <2>4. output'[p] = [j \in 1 .. Len(output'[p]) |-> j]
    <3>1. \A j \in 1 .. Len(output'[p]) : output'[p][j] = j
      BY <2>3 DEF BytesInv
    <3>2. ASSUME NEW s \in Seq(Nat), \A j \in 1 .. Len(s) : s[j] = j
          PROVE  s = [j \in 1 .. Len(s) |-> j]
      BY <3>2
    <3>3. output'[p] \in Seq(Nat)
      BY <1>1
    <3> QED BY <3>1, <3>2, <3>3
  <2>5. output' = [output EXCEPT ![p] = [j \in 1 .. Len(output'[p]) |-> j]]
    BY <1>1, <2>4
  <2>6. ~brokenNow[p]
    BY <1>5, SoundMeans DEF EchoInv
  <2>7. Contract!Say(p)
    BY <1>2, <2>2, <2>5, <2>6 DEF Contract!Say, brokenNow
  <2> QED BY <2>7
<1>6. CASE ~Sound(p)
  <2>1. brokenNow[p]
    BY <1>6, SoundMeans DEF EchoInv
  <2>2. Len(output'[p]) > Len(output[p])
    BY <1>1, <1>3, <1>4
  <2>3. \A j \in 1 .. Len(output[p]) : output'[p][j] = output[p][j]
    <3>1. ASSUME NEW j \in 1 .. Len(output[p]) PROVE j \in 1 .. Len(output'[p]) /\ j <= Len(output[p])
      BY <1>1, <1>3, <1>4
    <3> QED BY <1>1, <3>1
  <2>4. Contract!Slip(p)
    BY <1>1, <1>2, <2>1, <2>2, <2>3 DEF Contract!Slip, brokenNow
  <2> QED BY <2>4
<1> QED BY <1>5, <1>6

LEMMA RecvHears ==
  ASSUME EchoInv, NEW p \in Peers, NEW n \in Nat, pc[p] = "read", Recv(p, n)
  PROVE  Contract!Hear(p) \/ UNCHANGED Contract!echoVars
<1>1. taken' = [taken EXCEPT ![p] = taken[p] + n] /\ UNCHANGED <<peer, output, failed>>
  BY RecvTakes DEF EchoInv
<1>2. taken[p] \in Nat /\ taken \in [Peers -> Nat]
  BY DEF EchoInv, StreamTyped
<1>3. CASE n = 0
  <2>1. taken' = taken
    BY <1>1, <1>2, <1>3
  <2> QED BY <1>1, <2>1, EchoStutters
<1>4. CASE n # 0
  <2>1. taken'[p] = taken[p] + n /\ taken' = [taken EXCEPT ![p] = taken'[p]]
    BY <1>1, <1>2
  <2>2. taken'[p] > taken[p]
    BY <1>2, <1>4, <2>1
  <2>3. brokenNow[p] \/ Len(output[p]) = Welcome + taken[p]
    BY SoundMeans DEF EchoInv, BytesInv
  <2>4. brokenNow' = brokenNow
    BY <1>1 DEF brokenNow
  <2> QED BY <1>1, <2>1, <2>2, <2>3, <2>4 DEF Contract!Hear, brokenNow
<1> QED BY <1>3, <1>4

LEMMA ClientBreaks ==
  ASSUME EchoInv, NEW p \in Peers, Client(p)
  PROVE  Contract!Break(p) \/ UNCHANGED Contract!echoVars
<1>1. UNCHANGED <<taken, output, failed>>
  BY DEF Client, Connects, Sends, Shuts, Resets, Reads, inVars, outVars
<1>2. CASE Resets(p)
  <2>1. peer' = [peer EXCEPT ![p] = "reset"]
    BY <1>2 DEF Resets
  <2>2. brokenNow' = [brokenNow EXCEPT ![p] = TRUE]
    BY <1>1, <2>1 DEF brokenNow, EchoInv, StreamTyped
  <2>3. CASE ~brokenNow[p]
    BY <1>1, <2>2, <2>3 DEF Contract!Break, brokenNow
  <2>4. CASE brokenNow[p]
    <3>1. brokenNow[p] = TRUE
      BY <2>4 DEF brokenNow
    <3>2. brokenNow' = brokenNow
      BY <2>2, <3>1 DEF brokenNow
    <3> QED BY <1>1, <3>2 DEF Contract!echoVars, brokenNow
  <2> QED BY <2>3, <2>4
<1>3. CASE ~Resets(p)
  <2>1. \A q \in Peers : peer'[q] = "reset" <=> peer[q] = "reset"
    BY <1>3 DEF Client, Connects, Sends, Shuts, Reads, EchoInv, StreamTyped
  <2>2. brokenNow' = brokenNow
    BY <1>1, <2>1 DEF brokenNow
  <2> QED BY <1>1, <2>2 DEF Contract!echoVars, brokenNow
<1> QED BY <1>2, <1>3

(* What a step of a handler, and of the world around p, is to the client. *)
LEMMA PeerSimulates ==
  ASSUME EchoInv, NEW p \in Peers,
         Greet(p) \/ Writes(p) \/ WriteKills(p) \/ Echoes(p) \/ HangsUp(p) \/ Client(p)
  PROVE  Contract!Next \/ UNCHANGED Contract!echoVars
<1>1. ASSUME \/ Contract!Hear(p) \/ Contract!Say(p) \/ Contract!Break(p) \/ Contract!Slip(p)
             \/ UNCHANGED Contract!echoVars
      PROVE  Contract!Next \/ UNCHANGED Contract!echoVars
  BY <1>1 DEF Contract!Next
<1>2. CASE Greet(p)
  BY <1>2, EchoStutters DEF Greet, inVars
<1>3. CASE WriteKills(p)
  BY <1>3, EchoStutters DEF WriteKills, SendFails, streamVars, inVars, outVars
<1>4. CASE Writes(p)
  <2>1. Send(p) \/ SendFails(p) \/ CallFails(p)
    BY <1>4 DEF Writes, Write, async_write, helper_async_write, WriteTurn
  <2>2. CASE SendFails(p)
    BY <2>2, EchoStutters DEF SendFails, streamVars, inVars, outVars
  <2> QED BY <1>1, <1>4, <2>1, <2>2, FaultBreaks, SendSays
<1>5. CASE Echoes(p) \/ HangsUp(p)
  <2>1. pc[p] = "read" /\ (CallFails(p) \/ \E n \in Nat : Recv(p, n))
    <3>1. {0, 2} \subseteq Nat
      OBVIOUS
    <3>2. pc[p] = "read"
      BY <1>5 DEF Echoes, Echo, HangsUp, HangUp
    <3> QED BY <1>5, <3>1, <3>2, EchoReads, HangUpReads
  <2> QED BY <1>1, <2>1, FaultBreaks, RecvHears
<1>6. CASE Client(p)
  BY <1>1, <1>6, ClientBreaks
<1> QED BY <1>2, <1>3, <1>4, <1>5, <1>6

LEMMA EchoSimulates ==
  EchoInv /\ [EchoNext]_serverVars => [Contract!Next]_(Contract!echoVars)
<1> SUFFICES ASSUME EchoInv, [EchoNext]_serverVars
             PROVE  Contract!Next \/ UNCHANGED Contract!echoVars
  OBVIOUS
<1>1. CASE Main \/ MainFails \/ AsyncAccept \/ Spawn
  <2>1. UNCHANGED streamVars
    BY <1>1 DEF Main, MainFails, AsyncAccept, Spawn, run_server, helper_run_server,
       async_accept, helper_async_accept, Accepted, AcceptThrows, SpawnCallback
  <2> QED BY <2>1, EchoStutters DEF streamVars, inVars, outVars
<1>2. CASE AsyncAcceptFails
  <2>1. UNCHANGED <<peer, taken, output>> /\ \A q \in Peers : failed'[q] = failed[q]
    BY <1>2, FaultTakes, Places DEF AsyncAcceptFails, AcceptFails, EchoInv, StreamTyped
  <2> QED BY <2>1 DEF Contract!echoVars
<1>3. ASSUME NEW p \in Peers,
             Greet(p) \/ Writes(p) \/ WriteKills(p) \/ Echoes(p) \/ HangsUp(p) \/ Client(p)
      PROVE  Contract!Next \/ UNCHANGED Contract!echoVars
  BY <1>3, PeerSimulates
<1>4. CASE UNCHANGED serverVars
  BY <1>4, EchoStutters DEF serverVars, streamVars, inVars, outVars
<1> QED BY <1>1, <1>2, <1>3, <1>4 DEF EchoNext, Server, Handler, Fault, Writes, Echoes, HangsUp

(* The accept loop, the handlers and async_write with its partial sends are an
   echo for every client, whatever is connected, broken or refused; a client is
   served otherwise only after its connection was reset or a call of
   async_read or async_write on it failed, and until then it was sent its own
   bytes, all and in order. *)
THEOREM ServerImplementsEcho == EchoSpec => ImplementsEcho
<1>1. EchoInit => Contract!Init
  <2>1. ASSUME EchoInit PROVE \A p \in Peers : (peer[p] = "reset" \/ failed[p] > 0) = FALSE
    BY <2>1, Places DEF EchoInit, CoroSocketInit
  <2> QED BY <2>1 DEF EchoInit, CoroSocketInit, Contract!Init
<1> QED
  BY <1>1, EchoSimulates, EchoInvariant, PTL
  DEF EchoSpec, ImplementsEcho, Contract!Spec
=============================================================================

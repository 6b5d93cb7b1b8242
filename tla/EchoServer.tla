----------------------------- MODULE EchoServer -----------------------------
(***************************************************************************)
(* The echo server of example/coro_example/coro_echo.cpp on the coroutine  *)
(* sockets, or on the helpers for plain sockets: its handlers, the accept  *)
(* loop, the sockets and descriptors they use, and the clients.            *)
(***************************************************************************)
EXTENDS CoroHelper, FiniteSets

CONSTANTS
  Welcome,   (* the length of the welcome                                   *)
  MaxIn,     (* bound: bytes each client sends                              *)
  MaxRoom    (* bound: bytes the kernel buffers for a client                *)

ASSUME EchoAssumption ==
  /\ Welcome \in Nat \ {0} /\ MaxIn \in [Peers -> Nat] /\ MaxRoom \in Nat \ {0}
  /\ IsFiniteSet(Fds)

VARIABLES
  api,       (* what the program uses: "member" (CoroServerSocket) or "helper" *)
  alive,     (* of the process: "up", or what has ended it                  *)
  pc         (* where the handler of a connection is                        *)

handlerVars == <<api, alive, pc>>
serverVars == <<sockVars, loopVars, streamVars, handlerVars>>

EchoTypeOK ==
  /\ CoroSocketTypeOK
  /\ api \in {"member", "helper"}
  /\ alive \in {"up", "failed", "crashed", "killed"}
  /\ pc \in [Peers -> {"none", "start", "write", "read", "done"}]

EchoInit ==
  /\ CoroSocketInit
  /\ api \in {"member", "helper"}
  /\ alive = "up"
  /\ pc = [p \in Peers |-> "none"]

GoOn(p, place) == pc' = [pc EXCEPT ![p] = place] /\ UNCHANGED <<api, alive>>

-----------------------------------------------------------------------------
(* main(), and the accept loop. *)

(* With the helpers the program calls listen() itself, or forgets to. *)
Main ==
  \/ api = "member" /\ run_server /\ UNCHANGED handlerVars
  \/ /\ api = "helper" /\ loop = "off" /\ fd[Listener] = NoFd
     /\ listen(Listener)
     /\ UNCHANGED <<loopVars, streamVars, handlerVars>>
  \/ api = "helper" /\ helper_run_server /\ UNCHANGED handlerVars

(* listen() throws, which nothing in main() catches. *)
MainFails ==
  /\ loop = "off"
  /\ ListenFails(Listener)
  /\ alive' = "failed"
  /\ UNCHANGED <<loopVars, streamVars, api, pc>>

(* A handler was queued and waits for its first turn, which it has before
   __async_accept is called again: the ready queue is a queue. *)
Starting == \E p \in Peers : pc[p] = "start"

AsyncAccept ==
  /\ ~Starting
  /\ \/ \E p \in Peers :
          \/ api = "member" /\ async_accept(p)
          \/ api = "helper" /\ helper_async_accept(p)
     \/ AcceptThrows
  /\ UNCHANGED handlerVars

AsyncAcceptFails == ~Starting /\ AcceptFails /\ UNCHANGED handlerVars

(* socket->dump_self() of a null socket, in the first turn of its handler.  The
   loop has none before, and what others do until then they may do earlier. *)
NullHandler == alive' = "crashed" /\ UNCHANGED pc

(* Seeded fault: a connection is dropped while another one is served. *)
SpawnDrops ==
  /\ SpawnCallback
  /\ IF result = NoPeer THEN NullHandler
     ELSE /\ pc' = IF \E p \in Peers : pc[p] \in {"write", "read"} THEN pc
                   ELSE [pc EXCEPT ![result] = "start"]
          /\ UNCHANGED alive
  /\ UNCHANGED api

(* Seeded fault: the loop awaits the handler. *)
SpawnAwaits ==
  /\ loop = "spawn" /\ result # NoPeer
  /\ \/ pc[result] = "none" /\ pc' = [pc EXCEPT ![result] = "start"] /\ UNCHANGED loop
     \/ pc[result] = "done" /\ loop' = "accept" /\ UNCHANGED pc
  /\ UNCHANGED <<result, sockVars, streamVars, api, alive>>

Spawn ==
  /\ SpawnCallback
  /\ IF result = NoPeer THEN NullHandler
     ELSE pc' = [pc EXCEPT ![result] = "start"] /\ UNCHANGED alive
  /\ UNCHANGED api

-----------------------------------------------------------------------------
(* handle_client. *)

Greet(p) ==
  /\ pc[p] = "start"
  /\ BeginWrite(p, 0, Welcome)
  /\ GoOn(p, "write")
  /\ UNCHANGED <<sockVars, loopVars, peer, inVars, room, output, failed>>

(* The result of async_write is not looked at. *)
Write(p, how) ==
  /\ pc[p] = "write"
  /\ async_write(p, how) \/ helper_async_write(p, how)
  /\ GoOn(p, IF how = "some" /\ buffer'[p].sent < buffer'[p].size THEN "write" ELSE "read")
  /\ UNCHANGED <<sockVars, loopVars>>

(* send on a broken connection raises SIGPIPE, which nobody handles. *)
WriteKills(p) ==
  /\ pc[p] = "write" /\ SendFails(p)
  /\ alive' = "killed"
  /\ UNCHANGED <<sockVars, loopVars, api, pc>>

(* n > 0 is believed, whatever is in the buffer. *)
Echo(p, ok) ==
  /\ pc[p] = "read"
  /\ \E n \in 1 .. BufSize :
       /\ async_read(p, n, ok) \/ helper_async_read(p, n, ok)
       /\ \/ ok /\ BeginWrite(p, Welcome + taken[p], n)
          \/ ~ok /\ BeginStale(p, n)
  /\ GoOn(p, "write")
  /\ UNCHANGED <<sockVars, loopVars>>

(* Seeded fault: the handler ends without closing. *)
HangUpForgets(p, ok) ==
  /\ pc[p] = "read"
  /\ async_read(p, 0, ok) \/ helper_async_read(p, 0, ok)
  /\ GoOn(p, "done")
  /\ UNCHANGED <<sockVars, loopVars, buffer>>

(* Nothing more to read, or the two bytes that say quit: close() of the class. *)
HangUp(p, ok) ==
  /\ pc[p] = "read"
  /\ \E n \in {0, 2} : async_read(p, n, ok) \/ helper_async_read(p, n, ok)
  /\ ClientSocket_close(p) \/ CoroSocket_close(p)
  /\ GoOn(p, "done")
  /\ UNCHANGED <<loopVars, buffer>>

-----------------------------------------------------------------------------
(* What a client does after the server has closed makes no difference. *)
Client(p) ==
  /\ pc[p] # "done"
  /\ \/ Connects(p, MaxRoom) \/ Sends(p, MaxIn[p]) \/ Shuts(p) \/ Resets(p) \/ Reads(p, MaxRoom)
  /\ UNCHANGED <<sockVars, loopVars, handlerVars>>

(* main() and the loop that it starts. *)
Server == alive = "up" /\ (Main \/ AsyncAccept \/ Spawn)

Handler(p) ==
  /\ alive = "up"
  /\ \/ Greet(p)
     \/ Write(p, "some") \/ Write(p, "gone") \/ WriteKills(p)
     \/ Echo(p, TRUE) \/ HangUp(p, TRUE)

(* A call fails that had no reason to, see CallFails. *)
Fault ==
  /\ alive = "up"
  /\ \/ AsyncAcceptFails
     \/ \E p \in Peers : Write(p, "error") \/ Echo(p, FALSE) \/ HangUp(p, FALSE)

EchoNext ==
  \/ Server
  \/ \E p \in Peers : Handler(p)
  \/ Fault
  \/ alive = "up" /\ (MainFails \/ \E p \in Peers : Client(p))

EchoSpec == EchoInit /\ [][EchoNext]_serverVars

(* A coroutine goes on when its socket lets it; main() calls run_server.  No
   call has to fail. *)
FairEchoSpec ==
  /\ EchoSpec
  /\ WF_serverVars(Server)
  /\ \A p \in Peers : WF_serverVars(Handler(p))
=============================================================================

---------------------------- MODULE CoroContract ----------------------------
(***************************************************************************)
(* What a program may rely on when it uses the coroutine runtime, with no  *)
(* sockets, timers, event loop or frames in it.                            *)
(*                                                                         *)
(* Coroutines run one at a time, until they wait, call or finish.  A call  *)
(* takes its caller out of play until it returns.  Whatever is runnable    *)
(* is dispatched in the order in which it became so.  The host program is  *)
(* kept inside run() as long as a coroutine is not done.                   *)
(***************************************************************************)
EXTENDS CoroHandle, Sequences

VARIABLES
  active,  (* the host program is inside run()                              *)
  status,  (* what every coroutine is doing                                 *)
  caller,  (* who called it, Nil if it was launched                         *)
  queue    (* the runnable coroutines, first in first out                   *)

contractVars == <<active, status, caller, queue>>

Status == {"absent", "runnable", "running", "waiting", "calling", "done"}

Idle == \A c \in Coros : status[c] # "running"

Init ==
  /\ active = FALSE
  /\ status = [c \in Coros |-> "absent"]
  /\ caller = [c \in Coros |-> Nil]
  /\ queue = <<>>

Enter ==
  /\ ~active /\ active' = TRUE
  /\ UNCHANGED <<status, caller, queue>>

Leave ==
  /\ active /\ active' = FALSE
  /\ \A c \in Coros : status[c] \in {"absent", "done"}
  /\ UNCHANGED <<status, caller, queue>>

(* By the host program outside of run(), or by a running coroutine. *)
Launch(d) ==
  /\ status[d] = "absent"
  /\ active => ~Idle
  /\ status' = [status EXCEPT ![d] = "runnable"]
  /\ queue' = Append(queue, d)
  /\ UNCHANGED <<active, caller>>

(* The callees whose call is over when their caller goes on. *)
Returned(c) == {d \in Coros : caller[d] = c /\ status[d] = "done"}

(* The head of the queue runs; a call it made is forgotten. *)
Dispatch ==
  /\ active /\ Idle /\ queue # <<>>
  /\ LET c == Head(queue) IN
       /\ status' = [d \in Coros |-> IF d = c THEN "running"
                                     ELSE IF d \in Returned(c) THEN "absent" ELSE status[d]]
       /\ caller' = [d \in Coros |-> IF d \in Returned(c) THEN Nil ELSE caller[d]]
  /\ queue' = Tail(queue)
  /\ UNCHANGED active

Wait(c) ==
  /\ status[c] = "running"
  /\ status' = [status EXCEPT ![c] = "waiting"]
  /\ UNCHANGED <<active, caller, queue>>

(* What c waits for has happened. *)
Wake(c) ==
  /\ active /\ Idle /\ status[c] = "waiting"
  /\ status' = [status EXCEPT ![c] = "runnable"]
  /\ queue' = Append(queue, c)
  /\ UNCHANGED <<active, caller>>

Call(c, d) ==
  /\ status[c] = "running" /\ status[d] = "absent"
  /\ status' = [status EXCEPT ![c] = "calling", ![d] = "runnable"]
  /\ caller' = [caller EXCEPT ![d] = c]
  /\ queue' = Append(queue, d)
  /\ UNCHANGED active

Finish(c) ==
  /\ status[c] = "running" /\ caller[c] = Nil
  /\ status' = [status EXCEPT ![c] = "done"]
  /\ UNCHANGED <<active, caller, queue>>

Return(d, c) ==
  /\ status[d] = "running" /\ caller[d] = c /\ status[c] = "calling"
  /\ status' = [status EXCEPT ![d] = "done", ![c] = "runnable"]
  /\ queue' = Append(queue, c)
  /\ UNCHANGED <<active, caller>>

Next ==
  \/ Enter \/ Leave \/ Dispatch
  \/ \E c \in Coros : Launch(c) \/ Wait(c) \/ Wake(c) \/ Finish(c)
  \/ \E c, d \in Coros : Call(c, d) \/ Return(d, c)

Spec == Init /\ [][Next]_contractVars
=============================================================================

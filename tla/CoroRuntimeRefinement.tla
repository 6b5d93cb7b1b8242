----------------------- MODULE CoroRuntimeRefinement -----------------------
(***************************************************************************)
(* The coroutine runtime implements CoroContract, when no two call chains  *)
(* share a socket: what the event loop, the timers and the reactor do in   *)
(* between are stuttering steps of the contract.                           *)
(***************************************************************************)
EXTENDS CoroRuntimeProperties

(* What a coroutine is doing, as its program sees it. *)
StatusOf(c) ==
  IF frame[c] = "none" THEN "absent"
  ELSE IF frame[c] = "final" THEN "done"
  ELSE IF frame[c] = "running" THEN "running"
  ELSE IF InReady(c) THEN "runnable"
  ELSE IF AwaitsChild(c) THEN "calling"
  ELSE "waiting"

Contract ==
  INSTANCE CoroContract WITH
    active <- phase # "main",
    status <- [c \in Coros |-> StatusOf(c)],
    caller <- parent,
    queue  <- ready

(* Every behaviour of the runtime is, seen through the mapping, a behaviour
   of the contract.  It says more than the invariants do: no step of the
   loop makes a coroutine runnable that was not waiting, none resumes one out
   of turn or while another runs, a caller goes on exactly once after its
   callee, and run() does not return before everything is done. *)
ImplementsContract == Contract!Spec
=============================================================================

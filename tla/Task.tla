-------------------------------- MODULE Task --------------------------------
(***************************************************************************)
(* Coroutine frames: platform/coro_platform/Task.hpp.                      *)
(*                                                                         *)
(* A Task<T> object owns the handle of one coroutine frame.  The frame is  *)
(* created suspended (initial_suspend is suspend_always), is put into the  *)
(* ready queue either by Scheduler::spawn (which nulls the handle in the   *)
(* Task: nobody owns the frame any more) or by co_await (the Task object   *)
(* is a temporary of the awaiting expression), and stays suspended at its  *)
(* final suspend point until the Task object that owns it is destroyed.    *)
(*                                                                         *)
(* The operators below say what each of these does to the frames; the      *)
(* guards on the running coroutine and the queues are in CoroRuntime.      *)
(***************************************************************************)
EXTENDS CoroHandle, Naturals

VARIABLES
  frame,   (* life cycle of every frame                                     *)
  parent,  (* promise_type::parent_coroutine, Nil for a spawned coroutine   *)
  root,    (* ghost: the spawned coroutine whose call chain a frame is in   *)
  depth    (* ghost: the number of calls between the two                    *)

taskVars == <<frame, parent, root, depth>>

FrameState == {"none", "suspended", "running", "final"}

Live(c) == frame[c] \in {"suspended", "running"}

TaskTypeOK ==
  /\ frame \in [Coros -> FrameState]
  /\ parent \in [Coros -> Coros \cup {Nil}]
  /\ root \in [Coros -> Coros]
  /\ depth \in [Coros -> Nat]

TaskInit ==
  /\ frame = [c \in Coros |-> "none"]
  /\ parent = [c \in Coros |-> Nil]
  /\ root = [c \in Coros |-> c]
  /\ depth = [c \in Coros |-> 0]

(* A coroutine call: the frame is allocated, get_return_object, and
   suspend_always at the start.  The callee d is spawned: it has no parent
   and is the root of a chain. *)
StartDetached(d) ==
  /\ frame[d] = "none"
  /\ frame' = [frame EXCEPT ![d] = "suspended"]
  /\ UNCHANGED <<parent, root, depth>>

(* Seeded fault: await_suspend returns false, and c runs on beside d. *)
StartAwaitedRunsOn(c, d) ==
  /\ frame[d] = "none"
  /\ frame' = [frame EXCEPT ![d] = "suspended"]
  /\ parent' = [parent EXCEPT ![d] = c]
  /\ root' = [root EXCEPT ![d] = root[c]]
  /\ depth' = [depth EXCEPT ![d] = depth[c] + 1]

(* co_await of the Task of d by c: await_ready is false, await_suspend
   stores c in d's promise, c stays suspended. *)
StartAwaited(c, d) ==
  /\ frame[d] = "none"
  /\ frame' = [frame EXCEPT ![d] = "suspended", ![c] = "suspended"]
  /\ parent' = [parent EXCEPT ![d] = c]
  /\ root' = [root EXCEPT ![d] = root[c]]
  /\ depth' = [depth EXCEPT ![d] = depth[c] + 1]

(* c suspends on an awaitable that is not a Task. *)
Suspend(c) ==
  /\ frame' = [frame EXCEPT ![c] = "suspended"]
  /\ UNCHANGED <<parent, root, depth>>

(* co_return, or an exception (unhandled_exception swallows it): c stops at
   its final suspend point.  Nothing resumes or destroys it from here. *)
FinalSuspend(c) ==
  /\ frame' = [frame EXCEPT ![c] = "final"]
  /\ UNCHANGED <<parent, root, depth>>

(* The callees of c whose frames are gone once c goes on: c has been awaiting
   their Task, a temporary of the co_await expression. *)
Reclaimed(c) == {d \in Coros : parent[d] = c /\ frame[d] = "final"}

(* Seeded fault: the Task does not own the handle any more when it is
   destroyed, and the frame stays. *)
ResumeFrameLeaks(c) ==
  /\ frame' = [frame EXCEPT ![c] = "running"]
  /\ UNCHANGED <<parent, root, depth>>

(* c is resumed.  If it was awaiting a Task, await_resume copies the result,
   the full expression ends, and ~Task destroys the finished frame, whose
   memory may then be allocated again. *)
ResumeFrame(c) ==
  LET gone == Reclaimed(c) IN
  /\ frame' = [d \in Coros |-> IF d = c THEN "running"
                               ELSE IF d \in gone THEN "none" ELSE frame[d]]
  /\ parent' = [d \in Coros |-> IF d \in gone THEN Nil ELSE parent[d]]
  /\ root' = [d \in Coros |-> IF d \in gone THEN d ELSE root[d]]
  /\ depth' = [d \in Coros |-> IF d \in gone THEN 0 ELSE depth[d]]
=============================================================================

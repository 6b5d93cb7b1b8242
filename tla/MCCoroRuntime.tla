---------------------------- MODULE MCCoroRuntime ----------------------------
(* Instances of the coroutine runtime for TLC. *)
EXTENDS CoroRuntimeRefinement, TLC

CONSTANTS c1, c2, c3, c4, f1, f2

(* What the theorems about the timeouts of epoll_wait suppose. *)
ASSUME ShortSleepsAssumption == ShortSleeps

(* The program treats all coroutines, and all descriptors, alike.  Only for
   runs without liveness properties. *)
Symmetry == Permutations(Coros) \cup Permutations(Fds)
=============================================================================

----------------------------- MODULE CoroHandle -----------------------------
(***************************************************************************)
(* std::coroutine_handle<>, as the modules of the runtime share it.        *)
(***************************************************************************)
CONSTANTS
  Coros,   (* the coroutine frames the program may ever allocate            *)
  Nil      (* no coroutine: a null coroutine_handle                         *)

ASSUME NilAssumption == Nil \notin Coros
=============================================================================

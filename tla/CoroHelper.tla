----------------------------- MODULE CoroHelper -----------------------------
(***************************************************************************)
(* library/coro_sockets/coro_helper.{h,cpp}: the same loops as free        *)
(* functions over a shared_ptr<ServerSocket> and shared_ptr<ClientSocket>. *)
(* They differ in the class of the accepted socket, in who listens, and in *)
(* that the coroutines hold the socket they work on.                       *)
(***************************************************************************)
EXTENDS CoroSocket

(* run_server(server_socket, callback): the program is to listen before. *)
helper_run_server ==
  /\ loop = "off"
  /\ loop' = "accept"
  /\ UNCHANGED <<result, sockVars, streamVars>>

helper_async_accept(p) == Accepted(p, "ClientSocket")

helper_async_read(p, n, ok) == class[p] = "ClientSocket" /\ ReadReturns(p, n, ok)

helper_async_write(p, how) == class[p] = "ClientSocket" /\ WriteTurn(p, how)
=============================================================================

--------------------------- MODULE HttpConnection ---------------------------
(***************************************************************************)
(* One connection of the HTTP server: handle_connection with its reader    *)
(* and its writer, and the client at the other end.                        *)
(***************************************************************************)
EXTENDS HttpWriter

CONSTANTS
  Pipelining,  (* whether the client sends before it has the last response  *)
  Breaks       (* whether it may reset, or close in the middle of a request *)

ASSUME ClientAssumption == Pipelining \in BOOLEAN /\ Breaks \in BOOLEAN

VARIABLE served  (* the requests read_request has returned, with their body *)

connVars == <<streamVars, readerVars, writerVars, served>>

HttpTypeOK ==
  /\ StreamTypeOK
  /\ pc \in Places
  /\ start \in 0 .. taken
  /\ cur \in {0} \cup DOMAIN wire
  /\ body \subseteq 1 .. taken
  /\ chunk \in Nat \ {0}
  /\ failed \in BOOLEAN
  /\ \A j \in DOMAIN served : served[j].of \in DOMAIN wire /\ served[j].body \subseteq 1 .. taken
  /\ \A j \in DOMAIN output : output[j].of \in DOMAIN wire
  /\ intact \in 0 .. Len(output)

HttpInit ==
  /\ StreamInit /\ ReaderInit /\ WriterInit
  /\ served = <<>>

-----------------------------------------------------------------------------
(* handle_connection. *)

(* The request is there: the response is made and handed to the writer. *)
Answer ==
  /\ pc = "handle"
  /\ served' = Append(served, [of |-> cur, body |-> body, failed |-> failed])
  /\ BeginResponse
  /\ pc' = "write"
  /\ UNCHANGED <<streamVars, start, cur, body, chunk, failed, output, intact>>

(* What was received of nobody may read as a request, any one: the memory it
   comes from may still hold bytes that were sent. *)
Misread ==
  /\ pc = "foul" /\ Len(served) < Requests
  /\ \E i \in DOMAIN wire :
       served' = Append(served, [of |-> i, body |-> 1 .. taken, failed |-> TRUE])
  /\ UNCHANGED <<streamVars, readerVars, writerVars>>

(* Seeded fault: the loop ends with the response to the first request. *)
NextRequestNever ==
  /\ pc = "write" /\ todo = <<>>
  /\ Refuse /\ UNCHANGED <<start, cur, body, chunk, failed>>
  /\ UNCHANGED <<streamVars, writerVars, served>>

(* The response is written; the next turn of the loop has its own reader. *)
NextRequest ==
  /\ pc = "write" /\ todo = <<>>
  /\ IF wire[cur].keep THEN NewReader
     ELSE Refuse /\ UNCHANGED <<start, cur, body, chunk, failed>>
  /\ UNCHANGED <<streamVars, writerVars, served>>

(* sock->close(). *)
CloseSocket ==
  /\ pc = "closing"
  /\ pc' = "closed"
  /\ UNCHANGED <<streamVars, start, cur, body, chunk, failed, writerVars, served>>

-----------------------------------------------------------------------------
(* The client. *)

(* The responses the client has got, one after the other. *)
Answered ==
  {output[k].of : k \in {j \in 1 .. intact : output[j].part \in {"whole", "end"}}}

(* It may have sent this much: without pipelining up to the request after
   the last one that was answered, if that one keeps the connection. *)
Limit ==
  LET n == Cardinality(Answered)
  IN  IF Pipelining THEN LastByte
      ELSE IF n = 0 THEN wire[1].to
      ELSE IF n = Len(wire) \/ ~wire[n].keep THEN wire[n].to ELSE wire[n + 1].to

AtBoundary == sent = 0 \/ \E i \in DOMAIN wire : sent = wire[i].to

(* After the server's close nothing it does is seen by the server, and after
   a size nobody sent it makes no difference. *)
Client ==
  /\ pc \notin {"closed", "foul"}
  /\ \/ Arrives(Limit)
     \/ (Breaks \/ AtBoundary) /\ Closes
     \/ Breaks /\ Resets
  /\ UNCHANGED <<readerVars, writerVars, served>>

-----------------------------------------------------------------------------
Server ==
  \/ ReadRequest /\ UNCHANGED <<writerVars, served>>
  \/ Answer
  \/ WriteResponse /\ UNCHANGED served
  \/ NextRequest
  \/ CloseSocket
  \/ Misread

HttpNext == Client \/ Server

HttpSpec == HttpInit /\ [][HttpNext]_connVars

(* The coroutine goes on when its socket lets it. *)
FairHttpSpec == HttpSpec /\ WF_connVars(Server)
=============================================================================

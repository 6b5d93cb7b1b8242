--------------------------- MODULE HttpProperties ---------------------------
(***************************************************************************)
(* What the HTTP server should do with the requests of one connection.     *)
(***************************************************************************)
EXTENDS HttpConnection

(* Well-behaved clients: neither pipelining nor broken connections, and no
   call that fails with the connection fine. *)
Contract ==
  INSTANCE HttpContract WITH
    asked <- [i \in DOMAIN wire |-> [keep |-> wire[i].keep, body |-> BodyBytes(wire[i])]],
    left <- fin,
    received <- [j \in DOMAIN served |-> served[j].body],
    replied <- Len(served) - (IF pc = "write" THEN 1 ELSE 0),
    up <- pc # "closed"

(* What such a client sends is acceptable, has no bytes beyond its framing, and
   keeps to the limits: after max_header_bytes one more byte of a head is read
   in any case, and a body is limited as it is decoded. *)
WithinLimits(r) ==
  /\ r.valid /\ r.bad = 0
  /\ r.head - r.from <= MaxHeader + 1
  /\ Cardinality(BodyBytes(r)) <= MaxBody
  /\ r.framing = "none" => r.to = r.head

WellBehaved ==
  /\ ~Pipelining /\ ~Breaks /\ ~Failing
  /\ \A w \in Wires : \A i \in DOMAIN w : WithinLimits(w[i])

(* For a well-behaved client the connection is a server of HttpContract,
   however its requests are cut into segments and whatever their framing. *)
ImplementsHttp == Contract!Spec

(* A request that has arrived whole, from a client that waits for responses,
   is answered: read_request and write_response come to an end. *)
EveryRequestAnswered ==
  \A i \in 1 .. Requests :
    i \in DOMAIN wire /\ sent >= wire[i].to ~>
      i \in Answered

(* No async_read has taken bytes for received that nobody sent.  After that
   the memory of the process decides what is read as a request. *)
Clean == pc # "foul"

(* Whatever the client does and whichever calls fail, it is never served the
   same request twice, nor an earlier one after a later one: no byte that was
   received is parsed as two heads. *)
ServedInOrder ==
  Clean => \A j, k \in DOMAIN served : j < k => served[j].of < served[k].of

(* A body is a prefix of what the client sent as the body of that request,
   if it has a length or chunks: no bytes of another request, of the frames
   of chunks, and none left out in the middle. *)
BodiesArePrefixes ==
  Clean =>
    \A j \in DOMAIN served :
      LET sentBody == BodyBytes(wire[served[j].of]) IN
      wire[served[j].of].framing # "none" =>
        /\ served[j].body \subseteq sentBody
        /\ \A p \in sentBody, q \in served[j].body : p < q => p \in served[j].body

(* Exceptions of the reader are swallowed, and what it had is handled as a
   request.  A body with a length that is cut short reaches the handler only
   if the client has gone or a read of that very body failed; one with chunks
   is whole or empty even then. *)
BodiesWhole ==
  Clean =>
    \A j \in DOMAIN served :
      LET r == wire[served[j].of] IN
      r.framing # "none" /\ served[j].body # BodyBytes(r) =>
        IF r.framing = "length" THEN fin \/ gone \/ served[j].failed
        ELSE served[j].body = {}

(* max_body_bytes bounds the bodies a handler gets that have a length or
   chunks.  It does not bound those that have neither. *)
BodiesBounded ==
  Clean =>
    \A j \in DOMAIN served :
      wire[served[j].of].framing # "none" => Cardinality(served[j].body) <= MaxBody

(* While a head is read, accum_ is at most a block over max_header_bytes. *)
HeadersBounded == pc = "head" => Accumulated <= MaxHeader + ReadBlock

(* A response ends with its last piece, or with a head that was not written;
   whether it was is not told from the first piece on that was not. *)
EndsAt(k) == output[k].part \in {"whole", "end"} \/ (output[k].part = "head" /\ k > intact)

(* The requests whose response has come to an end. *)
Completed == {output[k].of : k \in {m \in DOMAIN output : EndsAt(m)}}

(* How the pieces of one response follow each other. *)
NextPart == {<<"head", "size">>, <<"size", "data">>, <<"data", "crlf">>,
             <<"crlf", "size">>, <<"crlf", "end">>}

(* What may come after the k-th piece: another response may, after one that
   announces keep-alive. *)
Follows(k) ==
  LET a == output[k]
      b == output[k + 1]
  IN  IF a.of = b.of THEN <<a.part, b.part>> \in NextPart
      ELSE a.alive /\ EndsAt(k) /\ b.part \in {"whole", "head"}

(* The writer writes whole responses, the k-th for the k-th request that was
   served; only the present one may be unfinished, none follows one that
   announces the end of the connection, and a head is given up on only after
   a write has failed.  So until then the client can read what it gets; from
   then on it may not: what follows a piece that was not written whole is
   written all the same, also on a connection that is fine. *)
OutputInFrames ==
  Clean =>
    /\ output # <<>> => output[1].part \in {"whole", "head"}
    /\ \A k \in 1 .. Len(output) - 1 : Follows(k)
    /\ pc # "write" /\ output # <<>> => EndsAt(Len(output))
    /\ \A k \in DOMAIN output : \E j \in DOMAIN served :
         /\ served[j].of = output[k].of
         /\ \A i \in 1 .. j-1 : served[i].of \in Completed

-----------------------------------------------------------------------------
(* What the code says of itself, and does not do. *)

(* "unexpected EOF in chunked body": when the client is gone the connection
   comes to an end. *)
ConnectionEnds == (fin \/ gone) ~> pc = "closed"
=============================================================================

---------------------------- MODULE ClientStream ----------------------------
(***************************************************************************)
(* The bytes of one client connection, as CoroClientSocket hands them to   *)
(* the HTTP reader.  A byte is its position in the stream, counted from 1; *)
(* what is known of the bytes is where requests, heads and chunks end.     *)
(*                                                                         *)
(* A request is a record:                                                  *)
(*   from, to  the last byte before it, and its own last byte              *)
(*   head      the last byte of its head, which ends with an empty line    *)
(*   framing   "length", "chunked", or "none": neither header              *)
(*   sizes     the sizes of its chunks, without the last one               *)
(*   at        the last byte before each chunk, the last one included      *)
(*   bad       the chunk whose size line is no hexadecimal number, or 0    *)
(*   valid     Request's constructor takes the head, the path is within    *)
(*             max_start_line, and a content-length is a number            *)
(*   keep      Request::isKeepAlive                                        *)
(***************************************************************************)
EXTENDS Naturals, Sequences

CONSTANTS
  Wires,    (* the sequences of requests a client may send *)
  Requests, (* bound: their number in one sequence         *)
  Failing   (* whether calls also fail on a connection that is fine: recv and
               send, or the epoll_ctl of a wait (add_waiter throws) *)

LineLen == 3   (* "5\r\n"    *)
CrlfLen == 2
EndLen  == 4   (* "\r\n\r\n" *)

Framing == {"length", "chunked", "none"}

LastChunk(r) == Len(r.sizes) + 1

Request ==
  [from : Nat, to : Nat, head : Nat, framing : Framing, sizes : Seq(Nat \ {0}),
   at : Seq(Nat), bad : Nat, valid : BOOLEAN, keep : BOOLEAN]

(* The parts of r follow each other; so no chunk overlaps a later one. *)
LaidOut(r) ==
  /\ r.from + EndLen < r.head /\ r.head <= r.to
  /\ r.framing = "chunked" =>
       /\ Len(r.at) = LastChunk(r) /\ r.at[1] = r.head
       /\ \A k \in DOMAIN r.sizes : r.at[k + 1] = r.at[k] + LineLen + r.sizes[k] + CrlfLen
       /\ r.to = r.at[LastChunk(r)] + LineLen + CrlfLen
       /\ \A j, k \in DOMAIN r.at :
            j < k => r.at[j] + LineLen + r.sizes[j] + CrlfLen <= r.at[k]

(* So do the requests, of which none overlaps a later one. *)
ASSUME WiresAssumption ==
  /\ Requests \in Nat /\ Failing \in BOOLEAN
  /\ \A w \in Wires :
       /\ w \in Seq(Request) /\ Len(w) \in 1 .. Requests
       /\ w[1].from = 0
       /\ \A i \in DOMAIN w : LaidOut(w[i]) /\ (i > 1 => w[i].from = w[i-1].to)
       /\ \A i, j \in DOMAIN w : i < j => w[i].to <= w[j].from

VARIABLES
  wire,   (* the requests this client sends, in order *)
  sent,   (* bytes that have arrived                  *)
  fin,    (* the client has closed its side           *)
  gone,   (* the connection was reset                 *)
  taken   (* bytes recv has returned                  *)

streamVars == <<wire, sent, fin, gone, taken>>

ChunkBytes(r, k) == r.at[k] + LineLen + 1 .. r.at[k] + LineLen + r.sizes[k]

(* The bytes of the body of request r. *)
BodyBytes(r) == IF r.framing = "chunked"
                THEN UNION {ChunkBytes(r, k) : k \in DOMAIN r.sizes}
                ELSE r.head + 1 .. r.to

LastByte == wire[Len(wire)].to

(* That wire is in Wires no step can change. *)
StreamTypeOK ==
  /\ taken \in 0 .. sent /\ sent \in 0 .. LastByte
  /\ fin \in BOOLEAN /\ gone \in BOOLEAN

StreamInit ==
  /\ wire \in Wires
  /\ sent = 0 /\ taken = 0
  /\ fin = FALSE /\ gone = FALSE

-----------------------------------------------------------------------------
(* async_read for most bytes returns n: what there is, up to that. *)
Recv(most, n) ==
  /\ n \in 1 .. most /\ taken + n <= sent
  /\ n = most \/ taken + n = sent
  /\ taken' = taken + n
  /\ UNCHANGED <<wire, sent, fin, gone>>

(* The client has gone: what has arrived before is read first. *)
AtEof == (fin \/ gone) /\ taken = sent

(* async_read returns 0 or -1, or it ends with the exception of a wait that
   failed: its promise swallows it, and the result is whatever the frame held. *)
NoBytes == AtEof \/ Failing

(* That may as well be the size of bytes nobody has sent. *)
WaitFails == Failing /\ ~fin /\ ~gone /\ taken = sent

(* The client: bytes arrive in segments of any length. *)
Arrives(limit) ==
  /\ ~fin /\ ~gone
  /\ sent' \in sent + 1 .. limit
  /\ UNCHANGED <<wire, fin, gone, taken>>

Closes == ~fin /\ fin' = TRUE /\ UNCHANGED <<wire, sent, gone, taken>>

Resets == ~gone /\ gone' = TRUE /\ UNCHANGED <<wire, sent, fin, taken>>
=============================================================================

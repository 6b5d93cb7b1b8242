----------------------------- MODULE HttpWriter -----------------------------
(***************************************************************************)
(* HttpWriter::write_response.  A response leaves in pieces, one for every *)
(* async_write; a piece is the request it answers, its part of the         *)
(* response, and whether the head announces keep-alive.                    *)
(***************************************************************************)
EXTENDS HttpReader

CONSTANT MaxPieces  (* bound: chunks of a response *)

ASSUME PiecesAssumption == MaxPieces \in Nat

VARIABLES
  todo,   (* the pieces of the response that are not written yet *)
  output, (* history: the pieces async_write was called for, of all responses *)
  intact  (* history: how many of them the kernel took whole before the first
             of which it did not *)

writerVars == <<todo, output, intact>>

WriterInit == todo = <<>> /\ output = <<>> /\ intact = 0

Piece(part, alive) == [of |-> cur, part |-> part, alive |-> alive]

ChunkParts == <<"size", "data", "crlf">>

(* Seeded fault: the response ends with its last chunk of data. *)
ChunkedNoEnd(n) ==
  [j \in 1 .. 1 + 3 * n |->
     Piece(IF j = 1 THEN "head" ELSE ChunkParts[((j - 2) % 3) + 1], TRUE)]

(* write_chunked: the head, n chunks, and the last chunk.  It replaces the
   connection header of the response. *)
Chunked(n) ==
  [j \in 1 .. 2 + 3 * n |->
     Piece(IF j = 1 THEN "head" ELSE IF j = 2 + 3 * n THEN "end"
           ELSE ChunkParts[((j - 2) % 3) + 1], TRUE)]

(* write_nonchunked: all at once. *)
Nonchunked == <<Piece("whole", wire[cur].keep)>>

(* write_response; which one depends on the path, on the size of an echoed
   body, and on cfg.read_block of a cfg that no longer exists. *)
BeginResponse ==
  \/ todo' = Nonchunked
  \/ \E n \in 1 .. MaxPieces : todo' = Chunked(n)

(* async_write succeeds. *)
WritePiece ==
  /\ pc = "write" /\ todo # <<>> /\ ~gone
  /\ output' = Append(output, Head(todo))
  /\ intact' = IF intact = Len(output) THEN intact + 1 ELSE intact
  /\ todo' = Tail(todo)
  /\ UNCHANGED <<streamVars, readerVars>>

(* send fails, or the wait for it, with a part of the piece sent or nothing. *)
WriteBreaksOff ==
  /\ pc = "write" /\ todo # <<>>
  /\ output' = Append(output, Head(todo))
  /\ UNCHANGED <<intact, streamVars, readerVars>>

(* async_write returns -1, or a failed wait leaves a result that is not
   positive: what is left is given up after a head, the results of the writes
   of chunks and of their frames are ignored. *)
WriteFails ==
  /\ WriteBreaksOff
  /\ gone \/ Failing
  /\ todo' = IF Head(todo).part \in {"whole", "head"} THEN <<>> ELSE Tail(todo)

(* A failed wait leaves a positive result: on it goes after a head, too.  What
   is then sent of a whole response, from a wrong place, counts as part of it. *)
WriteMiscounts ==
  /\ WriteBreaksOff
  /\ Failing /\ ~gone
  /\ todo' = Tail(todo)

WriteResponse == WritePiece \/ WriteFails \/ WriteMiscounts
=============================================================================

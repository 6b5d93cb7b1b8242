----------------------------- MODULE HttpReader -----------------------------
(***************************************************************************)
(* HttpReader::read_request and the three coroutines it awaits.  One step  *)
(* takes it from one co_await to the next.                                 *)
(*                                                                         *)
(* A coroutine that throws ends like one that returns: unhandled_exception *)
(* does nothing, and the caller gets whatever is in cached_value.  So      *)
(* read_request yields nullopt where it throws itself, and goes on where a *)
(* coroutine it awaits has thrown.                                         *)
(*                                                                         *)
(* Bodies and header values hold no text that reads like the start of a    *)
(* request: a reader that begins in the middle of one refuses what it gets.*)
(***************************************************************************)
EXTENDS ClientStream, FiniteSets

CONSTANTS
  MaxHeader,  (* ServerConfig::max_header_bytes *)
  MaxBody,    (* ServerConfig::max_body_bytes   *)
  ReadBlock   (* ServerConfig::read_block       *)

ASSUME ConfigAssumption ==
  /\ MaxHeader \in Nat /\ MaxBody \in Nat
  /\ ReadBlock \in Nat \ {0}  (* and at most MAX_TEMP_READ_BUFFER *)

VARIABLES
  pc,     (* the co_await the connection is at, see Places *)
  start,  (* accum_ holds the bytes start + 1 .. taken *)
  cur,    (* the request whose head was parsed, 0 before *)
  body,   (* req.body, or out of decode_chunked_body *)
  chunk,  (* the chunk the decoder is at *)
  failed  (* history: a read of this body failed with the client still there *)

readerVars == <<pc, start, cur, body, chunk, failed>>

(* "foul": bytes nobody sent have been taken for bytes of a request. *)
Places == {"head", "exact", "size", "data", "last", "handle", "write", "closing", "closed", "foul"}

(* Seeded fault: one reader serves all requests, and keeps what it has. *)
NewReaderKeepsAccum ==
  /\ pc' = "head"
  /\ start' = start
  /\ cur' = 0 /\ body' = {} /\ chunk' = 1 /\ failed' = FALSE

(* A new HttpReader, which reads from where the socket is. *)
NewReader ==
  /\ pc' = "head"
  /\ start' = taken
  /\ cur' = 0 /\ body' = {} /\ chunk' = 1 /\ failed' = FALSE

ReaderInit ==
  /\ pc = "head" /\ start = 0
  /\ cur = 0 /\ body = {} /\ chunk = 1 /\ failed = FALSE

(* read_request ends with a request, or with nullopt. *)
Deliver == pc' = "handle"
Refuse  == pc' = "closing"

-----------------------------------------------------------------------------
(* read_until_double_crlf, and read_request up to the choice of the body. *)

Accumulated == taken - start

(* accum_.find(ALL_SEG_TERMINATE); chunked bodies end like heads do. *)
Terminated ==
  \E i \in DOMAIN wire :
    \/ start + EndLen <= wire[i].head /\ wire[i].head <= taken
    \/ wire[i].framing = "chunked" /\ start + EndLen <= wire[i].to /\ wire[i].to <= taken

(* Neither the constructor of Request nor the checks of read_request throw. *)
Acceptable(r) == r.valid /\ (r.framing = "length" => r.to - r.head <= MaxBody)

(* Seeded fault: a head is read whatever its size. *)
ReadHeadUnlimited ==
  /\ pc = "head" /\ ~Terminated
  /\ \E n \in 1 .. ReadBlock : Recv(ReadBlock, n)
  /\ UNCHANGED readerVars

ReadHead ==
  /\ pc = "head" /\ ~Terminated /\ Accumulated <= MaxHeader
  /\ \E n \in 1 .. ReadBlock : Recv(ReadBlock, n)
  /\ UNCHANGED readerVars

(* Throws HttpHeaderTooLarge: ok is indeterminate, the head is not found. *)
HeadTooLarge ==
  /\ pc = "head" /\ ~Terminated /\ Accumulated > MaxHeader
  /\ Refuse
  /\ UNCHANGED <<streamVars, start, cur, body, chunk, failed>>

HeadCutShort ==
  /\ pc = "head" /\ ~Terminated /\ Accumulated <= MaxHeader /\ NoBytes
  /\ Refuse
  /\ UNCHANGED <<streamVars, start, cur, body, chunk, failed>>

HeadRejected ==
  /\ pc = "head" /\ Terminated
  /\ \A i \in DOMAIN wire : wire[i].from = start => ~Acceptable(wire[i])
  /\ Refuse
  /\ UNCHANGED <<streamVars, start, cur, body, chunk, failed>>

(* The head of request i has been parsed, and its framing determined. *)
Parsed(i, framing) ==
  /\ pc = "head" /\ Terminated
  /\ wire[i].from = start /\ Acceptable(wire[i])
  /\ wire[i].framing = framing
  /\ cur' = i
  /\ UNCHANGED <<streamVars, start, chunk, failed>>

(* What follows the head in accum_. *)
After(i) == wire[i].head + 1 .. taken

(* Seeded fault: the body gets its length before it is read. *)
BeginLengthResizes(i) ==
  /\ Parsed(i, "length")
  /\ body' = BodyBytes(wire[i])
  /\ IF wire[i].to <= taken THEN Deliver ELSE pc' = "exact"

(* Seeded fault: what was received beyond the body stays in it. *)
BeginLengthNoResize(i) ==
  /\ Parsed(i, "length")
  /\ body' = After(i)
  /\ IF wire[i].to <= taken THEN Deliver ELSE pc' = "exact"

(* content-length: what there is of the body, without what follows it. *)
BeginLength(i) ==
  /\ Parsed(i, "length")
  /\ body' = After(i) \cap BodyBytes(wire[i])
  /\ IF wire[i].to <= taken THEN Deliver ELSE pc' = "exact"

BeginChunked(i) == Parsed(i, "chunked") /\ pc' = "size" /\ UNCHANGED body

(* No body: all that was received is one all the same. *)
BeginUnframed(i) ==
  /\ Parsed(i, "none")
  /\ body' = After(i)
  /\ Deliver

-----------------------------------------------------------------------------
(* read_exact.  Its own limit is never met: need is within max_body_bytes. *)

Missing == wire[cur].to - taken

Want == IF Missing < ReadBlock THEN Missing ELSE ReadBlock

(* Seeded fault: one read is taken for the whole body. *)
ReadExactOnce ==
  /\ pc = "exact"
  /\ \E n \in 1 .. ReadBlock :
       /\ Recv(Want, n)
       /\ body' = body \cup (taken + 1 .. taken + n)
  /\ Deliver
  /\ UNCHANGED <<start, cur, chunk, failed>>

ReadExact ==
  /\ pc = "exact"
  /\ \E n \in 1 .. ReadBlock :
       /\ Recv(Want, n)
       /\ body' = body \cup (taken + 1 .. taken + n)
       /\ IF n = Missing THEN Deliver ELSE UNCHANGED pc
  /\ UNCHANGED <<start, cur, chunk, failed>>

(* "unexpected EOF while reading body" is thrown, and read_request goes on. *)
ExactCutShort ==
  /\ pc = "exact" /\ NoBytes
  /\ Deliver
  /\ failed' = ~AtEof
  /\ UNCHANGED <<streamVars, start, cur, body, chunk>>

-----------------------------------------------------------------------------
(* decode_chunked_body.  buffer begins with the first byte of the current
   chunk, of which each stage needs more than the one before. *)

At == wire[cur].at[chunk]

(* Seeded fault: the last chunk is to be followed by two empty lines. *)
NeededForTrailer ==
  LineLen + (CASE pc = "size" -> 0
               [] pc = "data" -> wire[cur].sizes[chunk] + CrlfLen
               [] pc = "last" -> 2 * CrlfLen
               [] OTHER -> 0)

Needed ==
  LineLen + (CASE pc = "size" -> 0
               [] pc = "data" -> wire[cur].sizes[chunk] + CrlfLen
               [] pc = "last" -> CrlfLen
               [] OTHER -> 0)

Decoding == pc \in {"size", "data", "last"}
Buffered == taken >= At + Needed

ReadMore ==
  /\ Decoding /\ ~Buffered
  /\ \E n \in 1 .. ReadBlock : Recv(ReadBlock, n)
  /\ UNCHANGED readerVars

(* "unexpected EOF in chunked body" ends read_more; the loop calls it again. *)
ReadMoreAgain ==
  /\ Decoding /\ ~Buffered /\ NoBytes
  /\ UNCHANGED <<streamVars, readerVars>>

(* Throws HttpChunkError: the std::string of the promise is still empty. *)
ChunkError == body' = {} /\ Deliver /\ UNCHANGED chunk

(* The size line: std::stoull finds no digits, the last chunk, or another. *)
ChunkSize ==
  /\ pc = "size" /\ Buffered
  /\ IF chunk = wire[cur].bad THEN ChunkError
     ELSE /\ pc' = IF chunk = LastChunk(wire[cur]) THEN "last" ELSE "data"
          /\ UNCHANGED <<body, chunk>>
  /\ UNCHANGED <<streamVars, start, cur, failed>>

(* Seeded fault: no limit on the decoded body. *)
ChunkDataUnlimited ==
  /\ pc = "data" /\ Buffered
  /\ body' = body \cup ChunkBytes(wire[cur], chunk)
  /\ chunk' = chunk + 1 /\ pc' = "size"
  /\ UNCHANGED <<streamVars, start, cur, failed>>

(* The data and its CR LF are there; the limit is checked afterwards. *)
ChunkData ==
  /\ pc = "data" /\ Buffered
  /\ LET out == body \cup ChunkBytes(wire[cur], chunk)
     IN  IF Cardinality(out) > MaxBody THEN ChunkError
         ELSE body' = out /\ chunk' = chunk + 1 /\ pc' = "size"
  /\ UNCHANGED <<streamVars, start, cur, failed>>

ChunkEnd ==
  /\ pc = "last" /\ Buffered
  /\ Deliver
  /\ UNCHANGED <<streamVars, start, cur, body, chunk, failed>>

-----------------------------------------------------------------------------
(* One of the three has called async_read. *)
Reading ==
  \/ pc = "head" /\ ~Terminated /\ Accumulated <= MaxHeader
  \/ pc = "exact"
  \/ Decoding /\ ~Buffered

(* It returns a size, but has received nothing: what its buffer happened to
   hold, and what is behind it, becomes part of the request. *)
ReadStale ==
  /\ Reading /\ WaitFails
  /\ pc' = "foul"
  /\ UNCHANGED <<streamVars, start, cur, body, chunk, failed>>

ReadRequest ==
  \/ ReadHead \/ HeadTooLarge \/ HeadCutShort \/ HeadRejected
  \/ \E i \in DOMAIN wire : BeginLength(i) \/ BeginChunked(i) \/ BeginUnframed(i)
  \/ ReadExact \/ ExactCutShort
  \/ ReadMore \/ ReadMoreAgain \/ ChunkSize \/ ChunkData \/ ChunkEnd
  \/ ReadStale
=============================================================================

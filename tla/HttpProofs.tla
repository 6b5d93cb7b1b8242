----------------------------- MODULE HttpProofs -----------------------------
(***************************************************************************)
(* Proofs about the HTTP connection, for all sequences of requests that    *)
(* are laid out as WiresAssumption says, all limits and all clients.       *)
(***************************************************************************)
EXTENDS HttpProperties, FiniteSetTheorems, SequenceTheorems, TLAPS

USE PiecesAssumption, ConfigAssumption, ClientAssumption

-----------------------------------------------------------------------------
(* The requests of a client. *)

(* Requests are records whose parts are in order, and so are requests. *)
LEMMA WireFacts ==
  ASSUME NEW w \in Wires
  PROVE  /\ w \in Seq(Request) /\ Len(w) \in Nat \ {0} /\ DOMAIN w = 1 .. Len(w)
         /\ \A i \in DOMAIN w :
              /\ w[i] \in Request /\ LaidOut(w[i])
              /\ w[i].from \in Nat /\ w[i].to \in Nat /\ w[i].head \in Nat
              /\ w[i].from + 4 < w[i].head /\ w[i].head <= w[i].to
         /\ \A i, j \in DOMAIN w : i < j => w[i].to <= w[j].from
         /\ \A i \in DOMAIN w : w[i].to <= w[Len(w)].to
<1>1. /\ w \in Seq(Request) /\ Len(w) \in 1 .. Requests /\ Requests \in Nat
      /\ \A i \in DOMAIN w : LaidOut(w[i])
      /\ \A i, j \in DOMAIN w : i < j => w[i].to <= w[j].from
  BY WiresAssumption
<1>2. Len(w) \in Nat \ {0} /\ DOMAIN w = 1 .. Len(w) /\ \A i \in DOMAIN w : w[i] \in Request
  BY <1>1, SMT
<1>3. \A i \in DOMAIN w :
        /\ w[i].from \in Nat /\ w[i].to \in Nat /\ w[i].head \in Nat
        /\ w[i].from + 4 < w[i].head /\ w[i].head <= w[i].to
  BY <1>1, <1>2, SMT DEF Request, LaidOut, EndLen
<1>4. \A i \in DOMAIN w : w[i].to <= w[Len(w)].to
  BY <1>1, <1>2, <1>3, SMT
<1> QED
  BY <1>1, <1>2, <1>3, <1>4

(* Positions of the chunks of a request. *)
LEMMA ChunkFacts ==
  ASSUME NEW r \in Request, LaidOut(r), r.framing = "chunked"
  PROVE  /\ Len(r.sizes) \in Nat /\ DOMAIN r.sizes = 1 .. Len(r.sizes)
         /\ \A k \in 1 .. Len(r.sizes) + 1 : r.at[k] \in Nat
         /\ \A k \in 1 .. Len(r.sizes) : r.sizes[k] \in Nat \ {0}
         /\ r.at[1] = r.head
         /\ \A j, k \in 1 .. Len(r.sizes) + 1 : j < k => r.at[j] + 3 + r.sizes[j] + 2 <= r.at[k]
<1>1. r.sizes \in Seq(Nat \ {0}) /\ r.at \in Seq(Nat)
  BY DEF Request
<1>2. /\ Len(r.at) = Len(r.sizes) + 1 /\ r.at[1] = r.head
      /\ \A j, k \in DOMAIN r.at : j < k => r.at[j] + 3 + r.sizes[j] + 2 <= r.at[k]
  BY DEF LaidOut, LastChunk, LineLen, CrlfLen
<1>3. Len(r.sizes) \in Nat /\ DOMAIN r.sizes = 1 .. Len(r.sizes)
      /\ DOMAIN r.at = 1 .. Len(r.sizes) + 1
  BY <1>1, <1>2, SMT
<1>4. /\ \A k \in 1 .. Len(r.sizes) + 1 : r.at[k] \in Nat
      /\ \A k \in 1 .. Len(r.sizes) : r.sizes[k] \in Nat \ {0}
  BY <1>1, <1>3, SMT
<1> QED
  BY <1>2, <1>3, <1>4

-----------------------------------------------------------------------------
(* Types. *)

Parts == {"whole", "head", "size", "data", "crlf", "end"}

PieceSet == [of : DOMAIN wire, part : Parts, alive : BOOLEAN]
ServedSet == [of : DOMAIN wire, body : SUBSET Nat, failed : BOOLEAN]

InRequest == {"exact", "size", "data", "last", "handle"}

HttpTypeInv ==
  /\ wire \in Wires
  /\ StreamTypeOK
  /\ pc \in Places
  /\ start \in 0 .. taken
  /\ cur \in {0} \cup DOMAIN wire
  /\ body \subseteq 1 .. taken
  /\ chunk \in Nat \ {0}
  /\ served \in Seq(ServedSet)
  /\ \A j \in DOMAIN served : served[j].body \subseteq 1 .. taken
  /\ todo \in Seq(PieceSet) /\ output \in Seq(PieceSet)
  /\ intact \in 0 .. Len(output)
  /\ failed \in BOOLEAN

(* Within a request cur is that request, whose head has been received, and
   accum_ began with it. *)
CurInv ==
  /\ pc = "head" => chunk = 1
  /\ pc \in InRequest \cup {"write"} => cur # 0 /\ wire[cur].head <= taken
  /\ pc \in InRequest => wire[cur].from = start /\ Acceptable(wire[cur])
  /\ pc = "exact" => wire[cur].framing = "length" /\ taken < wire[cur].to
  /\ Decoding => wire[cur].framing = "chunked" /\ chunk <= LastChunk(wire[cur])
  /\ pc = "data" => chunk < LastChunk(wire[cur])

(* The numbers behind the names of StreamTypeOK. *)
LEMMA TypeFacts ==
  ASSUME HttpTypeInv
  PROVE  /\ taken \in Nat /\ sent \in Nat /\ start \in Nat /\ LastByte \in Nat
         /\ start <= taken /\ taken <= sent /\ sent <= LastByte
         /\ Len(wire) \in Nat \ {0} /\ DOMAIN wire = 1 .. Len(wire)
<1>1. wire \in Wires /\ StreamTypeOK /\ start \in 0 .. taken
  BY DEF HttpTypeInv
<1>2. Len(wire) \in Nat \ {0} /\ DOMAIN wire = 1 .. Len(wire) /\ wire[Len(wire)].to \in Nat
  BY <1>1, WireFacts, SMT
<1> QED
  BY <1>1, <1>2, SMT DEF StreamTypeOK, LastByte

(* A head that is complete is that of the request the reader began with. *)
LEMMA ParsedHead ==
  ASSUME HttpTypeInv, NEW i \in DOMAIN wire, Terminated, wire[i].from = start
  PROVE  wire[i].head <= taken /\ start < wire[i].head /\ wire[i].head <= wire[i].to
<1>1. taken \in Nat /\ wire \in Wires
  BY TypeFacts DEF HttpTypeInv
<1>2. PICK j \in DOMAIN wire :
        \/ start + 4 <= wire[j].head /\ wire[j].head <= taken
        \/ start + 4 <= wire[j].to /\ wire[j].to <= taken
  BY DEF Terminated, EndLen
<1>3. /\ wire[i].from \in Nat /\ wire[i].to \in Nat /\ wire[i].head \in Nat
      /\ wire[j].from \in Nat /\ wire[j].to \in Nat /\ wire[j].head \in Nat
      /\ wire[i].from + 4 < wire[i].head /\ wire[i].head <= wire[i].to
      /\ wire[j].from + 4 < wire[j].head /\ wire[j].head <= wire[j].to
      /\ i < j => wire[i].to <= wire[j].from
      /\ j < i => wire[j].to <= wire[i].from
      /\ i \in Nat /\ j \in Nat
  BY <1>1, WireFacts, SMT
<1> QED
  BY <1>1, <1>2, <1>3, SMT

(* A client sends no more than its requests. *)
LEMMA LimitBound ==
  ASSUME HttpTypeInv
  PROVE  Limit \in Nat /\ Limit <= LastByte
<1>1. wire \in Wires /\ output \in Seq(PieceSet)
  BY DEF HttpTypeInv
<1>2. /\ Len(wire) \in Nat \ {0} /\ DOMAIN wire = 1 .. Len(wire)
      /\ \A i \in DOMAIN wire : wire[i].to \in Nat /\ wire[i].to <= LastByte
  BY <1>1, WireFacts DEF LastByte
<1>3. Answered \subseteq 1 .. Len(wire)
  <2>1. \A k \in DOMAIN output : output[k] \in PieceSet
    BY <1>1, SMT
  <2>2. \A k \in DOMAIN output : output[k].of \in DOMAIN wire
    BY <2>1 DEF PieceSet
  <2> QED
    <3>1. Len(output) \in Nat /\ DOMAIN output = 1 .. Len(output) /\ intact \in 0 .. Len(output)
      BY <1>1, LenProperties DEF HttpTypeInv
    <3>2. 1 .. intact \subseteq DOMAIN output
      BY <3>1, SMT
    <3> QED
      BY <2>2, <3>2, <1>2 DEF Answered
<1>4. Cardinality(Answered) \in Nat /\ Cardinality(Answered) <= Len(wire)
  <2>1. IsFiniteSet(1 .. Len(wire)) /\ Cardinality(1 .. Len(wire)) = Len(wire)
    BY <1>2, FS_Interval, SMT
  <2> QED
    BY <2>1, <1>3, FS_Subset, FS_CardinalityType
<1> QED
  BY <1>2, <1>4, SMT DEF Limit, LastByte

(* As long as the handler is not concerned, its sequences keep their types. *)
LEMMA SequencesKept ==
  ASSUME HttpTypeInv, wire' = wire, taken' \in Nat, taken <= taken',
         UNCHANGED <<writerVars, served>>
  PROVE  /\ served' \in Seq(ServedSet')
         /\ \A j \in DOMAIN served' : served'[j].body \subseteq 1 .. taken'
         /\ todo' \in Seq(PieceSet') /\ output' \in Seq(PieceSet')
         /\ intact' \in 0 .. Len(output')
<1>1. ServedSet' = ServedSet /\ PieceSet' = PieceSet
  BY DEF ServedSet, PieceSet
<1>2. 1 .. taken \subseteq 1 .. taken'
  BY TypeFacts, SMT
<1> QED
  BY <1>1, <1>2 DEF HttpTypeInv, writerVars

(* recv returns some of what has arrived. *)
LEMMA RecvFacts ==
  ASSUME HttpTypeInv, NEW most \in Nat, NEW n, Recv(most, n)
  PROVE  /\ n \in Nat /\ 1 <= n /\ n <= most /\ taken' = taken + n /\ taken' <= sent
         /\ taken' \in Nat /\ taken <= taken' /\ StreamTypeOK'
         /\ UNCHANGED <<wire, sent, fin, gone>> /\ 1 .. taken \subseteq 1 .. taken'
BY TypeFacts, SMT DEF Recv, HttpTypeInv, StreamTypeOK, LastByte

(* What has to be seen of a step of the reader. *)
LEMMA ReaderTypes ==
  ASSUME HttpTypeInv, UNCHANGED <<wire, writerVars, served>>, StreamTypeOK',
         taken' \in Nat, taken <= taken', pc' \in Places, start' \in 0 .. taken',
         cur' \in {0} \cup DOMAIN wire, body' \subseteq 1 .. taken', chunk' \in Nat \ {0},
         failed' \in BOOLEAN
  PROVE  HttpTypeInv'
<1>1. wire' = wire /\ wire' \in Wires
  BY DEF HttpTypeInv
<1> QED
  BY <1>1, SequencesKept DEF HttpTypeInv

(* The same when it receives nothing. *)
LEMMA QuietReaderTypes ==
  ASSUME HttpTypeInv, UNCHANGED <<streamVars, start, writerVars, served>>, pc' \in Places,
         cur' \in {0} \cup DOMAIN wire, body' \subseteq 1 .. taken, chunk' \in Nat \ {0},
         failed' \in BOOLEAN
  PROVE  HttpTypeInv'
<1>1. /\ wire' = wire /\ taken' = taken /\ start' = start /\ taken \in Nat /\ taken <= taken
      /\ start \in 0 .. taken
  BY TypeFacts, SMT DEF streamVars
<1>2. StreamTypeOK'
  BY DEF streamVars, StreamTypeOK, HttpTypeInv, LastByte
<1> QED
  BY <1>1, <1>2, ReaderTypes

(* What the decoder knows of the chunk it is at. *)
LEMMA DecoderFacts ==
  ASSUME HttpTypeInv, CurInv, Decoding
  PROVE  /\ cur \in DOMAIN wire /\ wire[cur] \in Request /\ LaidOut(wire[cur])
         /\ wire[cur].framing = "chunked"
         /\ chunk \in 1 .. Len(wire[cur].sizes) + 1 /\ At \in Nat
         /\ pc = "data" => /\ chunk \in 1 .. Len(wire[cur].sizes)
                            /\ wire[cur].sizes[chunk] \in Nat \ {0}
<1>1. cur \in DOMAIN wire /\ wire[cur] \in Request /\ LaidOut(wire[cur])
      /\ wire[cur].framing = "chunked"
  <2>1. cur # 0
    BY DEF CurInv, Decoding, InRequest
  <2> QED
    BY <2>1, WireFacts DEF HttpTypeInv, CurInv
<1>2. /\ Len(wire[cur].sizes) \in Nat
      /\ \A k \in 1 .. Len(wire[cur].sizes) + 1 : wire[cur].at[k] \in Nat
      /\ \A k \in 1 .. Len(wire[cur].sizes) : wire[cur].sizes[k] \in Nat \ {0}
  BY <1>1, ChunkFacts
<1>3. chunk \in Nat \ {0} /\ chunk <= Len(wire[cur].sizes) + 1
      /\ (pc = "data" => chunk < Len(wire[cur].sizes) + 1)
  BY DEF HttpTypeInv, CurInv, LastChunk
<1>4. /\ chunk \in 1 .. Len(wire[cur].sizes) + 1
      /\ pc = "data" => chunk \in 1 .. Len(wire[cur].sizes)
  BY <1>2, <1>3, SMT
<1> QED
  BY <1>1, <1>2, <1>4 DEF At

(* read_request keeps the types. *)
LEMMA ReadTypes ==
  ASSUME HttpTypeInv, CurInv, ReadRequest, UNCHANGED <<writerVars, served>>
  PROVE  HttpTypeInv'
<1>0. /\ pc \in Places /\ start \in 0 .. taken /\ taken \in Nat
      /\ cur \in {0} \cup DOMAIN wire /\ body \subseteq 1 .. taken /\ chunk \in Nat \ {0}
      /\ failed \in BOOLEAN
  BY TypeFacts DEF HttpTypeInv
<1>1. CASE ReadHead \/ ReadMore
  <2>1. PICK n : Recv(ReadBlock, n)
    BY <1>1 DEF ReadHead, ReadMore
  <2>2. UNCHANGED readerVars
    BY <1>1 DEF ReadHead, ReadMore
  <2>3. start' \in 0 .. taken' /\ body' \subseteq 1 .. taken'
    BY <1>0, <2>1, <2>2, RecvFacts, SMT DEF readerVars
  <2> QED
    BY <1>0, <2>1, <2>2, <2>3, RecvFacts, ReaderTypes DEF readerVars
<1>2. CASE \/ HeadTooLarge \/ HeadCutShort \/ HeadRejected
            \/ ReadMoreAgain \/ ExactCutShort \/ ChunkEnd \/ ReadStale
  BY <1>0, <1>2, QuietReaderTypes
  DEF HeadTooLarge, HeadCutShort, HeadRejected, ReadMoreAgain, ExactCutShort, ChunkEnd,
      ReadStale, Refuse, Deliver, Places, readerVars
<1>3. ASSUME NEW i \in DOMAIN wire, BeginLength(i) \/ BeginChunked(i) \/ BeginUnframed(i)
      PROVE  HttpTypeInv'
  <2>1. Parsed(i, wire[i].framing)
    BY <1>3 DEF BeginLength, BeginChunked, BeginUnframed, Parsed
  <2>2. wire[i].head \in Nat
    BY WireFacts DEF HttpTypeInv
  <2>3. After(i) \subseteq 1 .. taken
    BY <1>0, <2>2, SMT DEF After
  <2> QED
    BY <1>0, <1>3, <2>1, <2>3, QuietReaderTypes
    DEF BeginLength, BeginChunked, BeginUnframed, Parsed, Deliver, Places
<1>4. CASE ReadExact
  <2>1. PICK n \in 1 .. ReadBlock :
          Recv(Want, n) /\ body' = body \cup (taken + 1 .. taken + n)
    BY <1>4 DEF ReadExact
  <2>2. Want \in Nat
    <3>1. cur \in DOMAIN wire /\ wire[cur].to \in Nat /\ taken < wire[cur].to
      BY <1>0, <1>4, WireFacts DEF ReadExact, CurInv, InRequest, HttpTypeInv
    <3> QED
      BY <1>0, <3>1, SMT DEF Want, Missing
  <2>3. body' \subseteq 1 .. taken' /\ start' \in 0 .. taken'
    BY <1>0, <1>4, <2>1, <2>2, RecvFacts, SMT DEF ReadExact
  <2> QED
    BY <1>0, <1>4, <2>1, <2>2, <2>3, RecvFacts, ReaderTypes DEF ReadExact, Deliver, Places
<1>5. CASE ChunkSize
  BY <1>0, <1>5, QuietReaderTypes DEF ChunkSize, ChunkError, Deliver, Places
<1>6. CASE ChunkData
  <2>1. /\ At \in Nat /\ wire[cur].sizes[chunk] \in Nat \ {0}
        /\ taken >= At + (3 + (wire[cur].sizes[chunk] + 2))
    BY <1>6, DecoderFacts DEF ChunkData, Decoding, Buffered, Needed, LineLen, CrlfLen
  <2>2. ChunkBytes(wire[cur], chunk) \subseteq 1 .. taken
    BY <1>0, <2>1, SMT DEF ChunkBytes, LineLen, At
  <2>3. chunk + 1 \in Nat \ {0}
    BY <1>0, SMT
  <2> QED
    BY <1>0, <1>6, <2>2, <2>3, QuietReaderTypes DEF ChunkData, ChunkError, Deliver, Places
<1> QED
  BY <1>1, <1>2, <1>3, <1>4, <1>5, <1>6 DEF ReadRequest

(* A response is a sequence of pieces. *)
LEMMA ResponseType ==
  ASSUME HttpTypeInv, cur \in DOMAIN wire, BeginResponse
  PROVE  todo' \in Seq(PieceSet)
<1>0. wire[cur].keep \in BOOLEAN
  BY WireFacts DEF HttpTypeInv, Request
<1>1. \A part \in Parts, alive \in BOOLEAN : Piece(part, alive) \in PieceSet
  BY DEF Piece, PieceSet
<1>2. CASE todo' = Nonchunked
  <2>1. Piece("whole", wire[cur].keep) \in PieceSet
    BY <1>0, <1>1 DEF Parts
  <2>2. \A p \in PieceSet : <<p>> \in Seq(PieceSet)
    BY SMT
  <2> QED
    BY <1>2, <2>1, <2>2 DEF Nonchunked
<1>3. ASSUME NEW n \in 1 .. MaxPieces, todo' = Chunked(n)
      PROVE  todo' \in Seq(PieceSet)
  <2> DEFINE part(j) == IF j = 1 THEN "head" ELSE IF j = 2 + 3 * n THEN "end"
                        ELSE ChunkParts[((j - 2) % 3) + 1]
  <2>1. n \in Nat /\ 2 + 3 * n \in Nat
    BY SMT
  <2>2. \A k \in 1 .. 3 : ChunkParts[k] \in Parts
    <3>1. ChunkParts[1] = "size" /\ ChunkParts[2] = "data" /\ ChunkParts[3] = "crlf"
      BY SMT DEF ChunkParts
    <3>2. \A k \in 1 .. 3 : k = 1 \/ k = 2 \/ k = 3
      BY SMT
    <3> QED
      BY <3>1, <3>2, Zenon DEF Parts
  <2>3. \A j \in 1 .. 2 + 3 * n : ((j - 2) % 3) + 1 \in 1 .. 3
    BY <2>1, SMT
  <2>4. \A j \in 1 .. 2 + 3 * n : part(j) \in Parts
    <3> TAKE j \in 1 .. 2 + 3 * n
    <3>1. ChunkParts[((j - 2) % 3) + 1] \in Parts
      BY <2>2, <2>3
    <3> QED
      BY <3>1, Zenon DEF Parts
  <2>5. todo' = [j \in 1 .. 2 + 3 * n |-> Piece(part(j), TRUE)]
    BY <1>3 DEF Chunked
  <2> HIDE DEF part
  <2>6. todo' \in [1 .. 2 + 3 * n -> PieceSet]
    BY <1>1, <2>4, <2>5
  <2> QED
    BY <2>1, <2>6, SeqDef
<1> QED
  BY <1>2, <1>3 DEF BeginResponse

(* A step of the client keeps the types. *)
LEMMA ClientTypes ==
  ASSUME HttpTypeInv, Client
  PROVE  HttpTypeInv'
<1>1. UNCHANGED <<wire, taken, readerVars, writerVars, served>>
  BY DEF Client, Arrives, Closes, Resets
<1>2. StreamTypeOK'
  <2>1. CASE Arrives(Limit)
    <3>1. Limit \in Nat /\ Limit <= LastByte
      BY LimitBound
    <3> QED
      BY <2>1, <3>1, TypeFacts, SMT DEF Arrives, StreamTypeOK, HttpTypeInv, LastByte
  <2>2. CASE Closes \/ Resets
    BY <2>2 DEF Closes, Resets, StreamTypeOK, HttpTypeInv, LastByte
  <2> QED
    BY <2>1, <2>2 DEF Client
<1>3. taken \in Nat /\ taken <= taken
  BY TypeFacts, SMT
<1> QED
  BY <1>1, <1>2, <1>3, ReaderTypes DEF readerVars, HttpTypeInv

(* A step of handle_connection, or of the writer, keeps the types. *)
LEMMA ServeTypes ==
  ASSUME HttpTypeInv, CurInv,
         Answer \/ (WriteResponse /\ UNCHANGED served) \/ NextRequest \/ CloseSocket
           \/ Misread
  PROVE  HttpTypeInv'
<1>0. UNCHANGED streamVars /\ wire' = wire /\ taken' = taken
  BY DEF Answer, WriteResponse, WritePiece, WriteFails, WriteMiscounts, WriteBreaksOff,
         NextRequest, CloseSocket, Misread, streamVars
<1>1. StreamTypeOK' /\ ServedSet' = ServedSet /\ PieceSet' = PieceSet
  BY <1>0 DEF streamVars, StreamTypeOK, HttpTypeInv, LastByte, ServedSet, PieceSet
<1>2. CASE Answer
  <2>1. /\ cur \in DOMAIN wire /\ pc' = "write"
        /\ UNCHANGED <<start, cur, body, chunk, failed, output, intact>>
    BY <1>2 DEF Answer, HttpTypeInv, CurInv, InRequest
  <2>2. [of |-> cur, body |-> body, failed |-> failed] \in ServedSet
    <3>1. 1 .. taken \subseteq Nat
      BY TypeFacts, SMT
    <3> QED
      BY <2>1, <3>1 DEF ServedSet, HttpTypeInv
  <2>3. /\ served' \in Seq(ServedSet)
        /\ \A j \in DOMAIN served' : served'[j].body \subseteq 1 .. taken
    <3>1. /\ served \in Seq(ServedSet)
          /\ served' = Append(served, [of |-> cur, body |-> body, failed |-> failed])
      BY <1>2 DEF Answer, HttpTypeInv
    <3>2. \A j \in DOMAIN served' : \/ j \in DOMAIN served /\ served'[j] = served[j]
                                   \/ served'[j] = [of |-> cur, body |-> body, failed |-> failed]
      BY <2>2, <3>1, SMT
    <3>3. /\ body \subseteq 1 .. taken
          /\ \A j \in DOMAIN served : served[j].body \subseteq 1 .. taken
      BY DEF HttpTypeInv
    <3>4. \A j \in DOMAIN served' : served'[j].body \subseteq 1 .. taken
      BY <3>2, <3>3
    <3>5. served' \in Seq(ServedSet)
      BY <2>2, <3>1, AppendProperties
    <3> QED
      BY <3>4, <3>5
  <2>4. todo' \in Seq(PieceSet)
    BY <1>2, <2>1, ResponseType DEF Answer
  <2> QED
    BY <1>0, <1>1, <2>1, <2>3, <2>4 DEF HttpTypeInv, Places
<1>3. CASE WriteResponse /\ UNCHANGED served
  <2>1. todo' \in Seq(PieceSet) /\ output' \in Seq(PieceSet) /\ intact' \in 0 .. Len(output')
    <3>1. /\ todo \in Seq(PieceSet) /\ output \in Seq(PieceSet)
          /\ todo # <<>> => Head(todo) \in PieceSet /\ Tail(todo) \in Seq(PieceSet)
      BY HeadTailProperties DEF HttpTypeInv
    <3>2. /\ todo # <<>> /\ output' = Append(output, Head(todo))
          /\ todo' = <<>> \/ todo' = Tail(todo)
          /\ intact' = intact \/ (intact = Len(output) /\ intact' = intact + 1)
      BY <1>3 DEF WriteResponse, WritePiece, WriteFails, WriteMiscounts, WriteBreaksOff
    <3>3. Len(output') = Len(output) + 1 /\ Len(output) \in Nat /\ output' \in Seq(PieceSet)
      BY <3>1, <3>2, AppendProperties, LenProperties
    <3>4. intact' \in 0 .. Len(output')
      BY <3>2, <3>3, SMT DEF HttpTypeInv
    <3> QED
      BY <3>1, <3>2, <3>3, <3>4, EmptySeq
  <2>2. UNCHANGED <<pc, start, cur, body, chunk, failed, served>>
    BY <1>3
    DEF WriteResponse, WritePiece, WriteFails, WriteMiscounts, WriteBreaksOff, readerVars
  <2> QED
    BY <1>0, <1>1, <2>1, <2>2 DEF HttpTypeInv
<1>4. CASE NextRequest \/ CloseSocket
  <2>1. /\ UNCHANGED <<todo, output, intact, served>> /\ pc' \in Places /\ failed' \in BOOLEAN
        /\ start' \in 0 .. taken /\ cur' \in {0} \cup DOMAIN wire
        /\ body' \subseteq 1 .. taken /\ chunk' \in Nat \ {0}
    <3>1. taken \in 0 .. taken /\ 1 \in Nat \ {0} /\ start \in 0 .. taken
      BY TypeFacts, SMT
    <3> QED
      BY <1>4, <3>1
      DEF NextRequest, CloseSocket, NewReader, Refuse, Places, HttpTypeInv, writerVars
  <2> QED
    BY <1>0, <1>1, <2>1 DEF HttpTypeInv
<1>5. CASE Misread
  <2>1. PICK i \in DOMAIN wire :
          served' = Append(served, [of |-> i, body |-> 1 .. taken, failed |-> TRUE])
    BY <1>5 DEF Misread
  <2>2. [of |-> i, body |-> 1 .. taken, failed |-> TRUE] \in ServedSet
    <3>1. 1 .. taken \subseteq Nat
      BY TypeFacts, SMT
    <3> QED
      BY <3>1 DEF ServedSet
  <2>3. served \in Seq(ServedSet)
    BY DEF HttpTypeInv
  <2>4. \A j \in DOMAIN served' :
          \/ j \in DOMAIN served /\ served'[j] = served[j]
          \/ served'[j] = [of |-> i, body |-> 1 .. taken, failed |-> TRUE]
    BY <2>1, <2>2, <2>3, SMT
  <2>5. served' \in Seq(ServedSet)
    BY <2>1, <2>2, <2>3, AppendProperties
  <2>6. \A j \in DOMAIN served' : served'[j].body \subseteq 1 .. taken
    <3>1. /\ \A j \in DOMAIN served : served[j].body \subseteq 1 .. taken
          /\ [of |-> i, body |-> 1 .. taken, failed |-> TRUE].body = 1 .. taken
      BY DEF HttpTypeInv
    <3> QED
      BY <2>4, <3>1, Zenon
  <2> QED
    BY <1>0, <1>1, <1>5, <2>5, <2>6 DEF Misread, readerVars, writerVars, HttpTypeInv
<1> QED
  BY <1>2, <1>3, <1>4, <1>5

(* Where the connection is not within a request there is nothing to show. *)
LEMMA OutsideRequest ==
  ASSUME pc' \in {"closing", "closed", "foul"} \/ (pc' = "head" /\ chunk' = 1)
  PROVE  CurInv'
BY DEF CurInv, InRequest, Decoding

(* What follows when only more bytes are received. *)
LEMMA MoreReceived ==
  ASSUME HttpTypeInv, CurInv, UNCHANGED <<wire, pc, start, cur, chunk>>,
         taken' \in Nat, taken <= taken', pc # "exact" \/ taken' = taken
  PROVE  CurInv'
<1>1. CASE pc \in InRequest \cup {"write"}
  <2>1. wire[cur].head \in Nat /\ wire[cur].head <= taken /\ cur # 0
    BY <1>1, WireFacts DEF CurInv, HttpTypeInv
  <2>2. wire'[cur'].head <= taken'
    BY <2>1, TypeFacts, SMT
  <2> QED
    BY <2>1, <2>2 DEF CurInv, Decoding, InRequest, Acceptable
<1>2. CASE pc \notin InRequest \cup {"write"}
  BY <1>2 DEF CurInv, Decoding, InRequest
<1> QED
  BY <1>1, <1>2

(* read_request knows which request it is in, and where. *)
LEMMA ReadCur ==
  ASSUME HttpTypeInv, CurInv, ReadRequest
  PROVE  CurInv'
<1>0. taken \in Nat /\ taken <= taken
  BY TypeFacts, SMT
<1>1. CASE ReadHead \/ ReadMore
  <2>1. PICK n : Recv(ReadBlock, n)
    BY <1>1 DEF ReadHead, ReadMore
  <2>2. UNCHANGED <<pc, start, cur, chunk>> /\ pc # "exact"
    BY <1>1 DEF ReadHead, ReadMore, readerVars, Decoding
  <2> QED
    BY <2>1, <2>2, RecvFacts, MoreReceived
<1>2. CASE HeadTooLarge \/ HeadCutShort \/ HeadRejected \/ ReadStale
  BY <1>2, OutsideRequest DEF HeadTooLarge, HeadCutShort, HeadRejected, ReadStale, Refuse
<1>3. ASSUME NEW i \in DOMAIN wire, BeginLength(i) \/ BeginChunked(i) \/ BeginUnframed(i)
      PROVE  CurInv'
  <2>1. /\ Parsed(i, wire[i].framing) /\ pc = "head" /\ chunk = 1
        /\ UNCHANGED <<wire, taken, start, chunk>>
    BY <1>3 DEF BeginLength, BeginChunked, BeginUnframed, Parsed, streamVars, CurInv
  <2>2. /\ cur' = i /\ wire'[cur'] = wire[i] /\ cur' # 0
        /\ wire[i].head <= taken /\ Acceptable(wire[i]) /\ wire[i].from = start
        /\ wire[i].to \in Nat
    <3>1. cur' = i /\ wire' = wire /\ Terminated
          /\ wire[i].from = start /\ Acceptable(wire[i])
      BY <2>1 DEF Parsed
    <3>2. wire[i].head <= taken
      BY <3>1, ParsedHead
    <3>3. wire[i].to \in Nat /\ i # 0
      <4>1. wire \in Wires /\ DOMAIN wire = 1 .. Len(wire)
        BY TypeFacts DEF HttpTypeInv
      <4>2. wire[i].to \in Nat
        BY <4>1, WireFacts, Zenon
      <4>3. i # 0
        BY <4>1, SMT
      <4> QED
        BY <4>2, <4>3
    <3> QED
      BY <3>1, <3>2, <3>3, Zenon
  <2>3. CASE BeginLength(i)
    <3>1. /\ wire[i].framing = "length"
          /\ pc' = "handle" \/ (pc' = "exact" /\ taken < wire[i].to)
      BY <1>0, <2>2, <2>3, SMT DEF BeginLength, Parsed, Deliver
    <3> QED
      BY <2>1, <2>2, <3>1 DEF CurInv, InRequest, Decoding, Acceptable
  <2>4. CASE BeginChunked(i)
    <3>1. wire[i].framing = "chunked" /\ pc' = "size"
      BY <2>4 DEF BeginChunked, Parsed
    <3>2. 1 <= LastChunk(wire[i])
      BY <3>1, WireFacts, ChunkFacts, SMT DEF HttpTypeInv, LastChunk
    <3> QED
      BY <2>1, <2>2, <3>1, <3>2 DEF CurInv, InRequest, Decoding, Acceptable, LastChunk
  <2>5. CASE BeginUnframed(i)
    BY <2>1, <2>2, <2>5 DEF BeginUnframed, Deliver, CurInv, InRequest, Decoding, Acceptable
  <2> QED
    BY <1>3, <2>3, <2>4, <2>5
<1>4. CASE ReadExact \/ ExactCutShort
  <2>1. /\ cur \in DOMAIN wire /\ wire[cur].head \in Nat /\ wire[cur].to \in Nat
        /\ pc = "exact" /\ wire[cur].framing = "length"
        /\ wire[cur].head <= taken /\ taken < wire[cur].to
        /\ wire[cur].from = start /\ Acceptable(wire[cur])
    BY <1>4, WireFacts DEF ReadExact, ExactCutShort, CurInv, InRequest, HttpTypeInv
  <2>2. CASE ReadExact
    <3>1. PICK n \in 1 .. ReadBlock :
            Recv(Want, n) /\ IF n = Missing THEN Deliver ELSE UNCHANGED pc
      BY <2>2 DEF ReadExact
    <3>2. Want \in Nat /\ Want <= Missing /\ Missing = wire[cur].to - taken
      BY <1>0, <2>1, SMT DEF Want, Missing
    <3>3. n \in Nat /\ n <= Want /\ taken' = taken + n /\ wire' = wire /\ taken <= taken'
      BY <3>1, <3>2, RecvFacts
    <3>4. pc' = "handle" \/ (pc' = "exact" /\ taken' < wire[cur].to)
      BY <1>0, <2>1, <3>1, <3>2, <3>3, SMT DEF Deliver
    <3>5. wire[cur].head <= taken'
      BY <1>0, <2>1, <3>3, SMT
    <3> QED
      BY <2>1, <2>2, <3>3, <3>4, <3>5
      DEF ReadExact, CurInv, InRequest, Decoding, Acceptable, HttpTypeInv
  <2>3. CASE ExactCutShort
    BY <2>1, <2>3 DEF ExactCutShort, Deliver, streamVars, CurInv, InRequest, Decoding, Acceptable
  <2> QED
    BY <1>4, <2>2, <2>3
<1>5. CASE ReadMoreAgain
  BY <1>0, <1>5, MoreReceived DEF ReadMoreAgain, streamVars, readerVars
<1>6. CASE ChunkSize \/ ChunkData \/ ChunkEnd
  <2>1. Decoding /\ UNCHANGED <<wire, taken, start, cur>>
    BY <1>6 DEF ChunkSize, ChunkData, ChunkEnd, Decoding, streamVars
  <2>2. /\ chunk \in Nat /\ LastChunk(wire[cur]) \in Nat /\ chunk <= LastChunk(wire[cur])
        /\ pc = "data" => chunk < LastChunk(wire[cur])
    BY <2>1, DecoderFacts, ChunkFacts, SMT DEF LastChunk, CurInv
  <2>3. /\ pc' \in {"size", "data", "last", "handle"}
        /\ chunk' <= LastChunk(wire[cur])
        /\ pc' = "data" => chunk' < LastChunk(wire[cur])
    <3>1. CASE ChunkSize
      BY <2>2, <3>1, SMT DEF ChunkSize, ChunkError, Deliver
    <3>2. CASE ChunkData
      BY <2>2, <3>2, SMT DEF ChunkData, ChunkError, Deliver
    <3>3. CASE ChunkEnd
      BY <2>2, <3>3 DEF ChunkEnd, Deliver
    <3> QED
      BY <1>6, <3>1, <3>2, <3>3
  <2> QED
    BY <2>1, <2>3 DEF CurInv, InRequest, Decoding, Acceptable, LastChunk
<1> QED
  BY <1>1, <1>2, <1>3, <1>4, <1>5, <1>6 DEF ReadRequest

(* handle_connection hands that request on to the writer. *)
LEMMA ServeCur ==
  ASSUME HttpTypeInv, CurInv,
         Answer \/ (WriteResponse /\ UNCHANGED served) \/ NextRequest \/ CloseSocket
           \/ Misread
  PROVE  CurInv'
<1>0. taken \in Nat /\ taken <= taken
  BY TypeFacts, SMT
<1>1. CASE Answer
  <2>1. UNCHANGED <<wire, taken, cur>> /\ pc = "handle" /\ pc' = "write"
    BY <1>1 DEF Answer, streamVars
  <2> QED
    BY <2>1 DEF CurInv, InRequest, Decoding
<1>2. CASE WriteResponse
  BY <1>0, <1>2, MoreReceived
  DEF WriteResponse, WritePiece, WriteFails, WriteMiscounts, WriteBreaksOff, streamVars,
      readerVars
<1>3. CASE NextRequest \/ CloseSocket \/ Misread
  BY <1>3, OutsideRequest
  DEF NextRequest, CloseSocket, NewReader, Refuse, Misread, readerVars
<1> QED
  BY <1>1, <1>2, <1>3

(* The types of all variables, and what is known of the request. *)
CoreInv == HttpTypeInv /\ CurInv

(* A new connection has read nothing. *)
LEMMA CoreInit == HttpInit => CoreInv
<1> SUFFICES ASSUME HttpInit PROVE CoreInv
  OBVIOUS
<1> USE DEF HttpInit, StreamInit, ReaderInit, WriterInit
<1>1. wire \in Wires /\ Len(wire) \in Nat \ {0} /\ DOMAIN wire = 1 .. Len(wire)
      /\ wire[Len(wire)].to \in Nat
  BY WireFacts, SMT
<1>2. StreamTypeOK /\ 0 \in 0 .. 0 /\ 1 \in Nat \ {0}
  <2>1. \A n \in Nat : 0 \in 0 .. n
    BY SMT
  <2>2. LastByte \in Nat /\ 0 \in Nat /\ 1 \in Nat \ {0}
    BY <1>1, SMT DEF LastByte
  <2> QED
    BY <2>1, <2>2 DEF StreamTypeOK
<1>3. served \in Seq(ServedSet) /\ DOMAIN served = {}
  BY EmptySeq, SMT
<1>4. todo \in Seq(PieceSet) /\ output \in Seq(PieceSet)
  BY EmptySeq
<1>5. intact \in 0 .. Len(output)
  BY SMT
<1> QED
  BY <1>1, <1>2, <1>3, <1>4, <1>5
  DEF CoreInv, HttpTypeInv, CurInv, Places, InRequest, Decoding

(* Every step keeps the types and what is known of the request. *)
LEMMA CoreStep == CoreInv /\ [HttpNext]_connVars => CoreInv'
<1> SUFFICES ASSUME CoreInv, [HttpNext]_connVars PROVE CoreInv'
  OBVIOUS
<1> USE DEF CoreInv
<1>1. CASE Client
  <2>1. UNCHANGED <<wire, taken, pc, start, cur, chunk>> /\ taken \in Nat /\ taken <= taken
    BY <1>1, TypeFacts, SMT DEF Client, Arrives, Closes, Resets, readerVars
  <2> QED
    BY <1>1, <2>1, ClientTypes, MoreReceived
<1>2. CASE ReadRequest /\ UNCHANGED <<writerVars, served>>
  BY <1>2, ReadTypes, ReadCur
<1>3. CASE Answer \/ (WriteResponse /\ UNCHANGED served) \/ NextRequest \/ CloseSocket
             \/ Misread
  BY <1>3, ServeTypes, ServeCur
<1>4. CASE UNCHANGED connVars
  <2>1. /\ UNCHANGED <<streamVars, pc, start, cur, body, chunk, failed, writerVars, served>>
        /\ UNCHANGED <<wire, taken>> /\ taken \in Nat /\ taken <= taken
    BY <1>4, TypeFacts, SMT DEF connVars, readerVars, streamVars
  <2> QED
    BY <2>1, QuietReaderTypes, MoreReceived DEF HttpTypeInv
<1> QED
  BY <1>1, <1>2, <1>3, <1>4 DEF HttpNext, Server

(* So they hold always. *)
LEMMA CoreHolds == HttpSpec => []CoreInv
BY CoreInit, CoreStep, PTL DEF HttpSpec

(* Whatever is sent, every variable of the connection keeps its type, and no
   part of it refers to bytes that have not been received. *)
THEOREM HttpTypeCorrect == HttpSpec => []HttpTypeOK
<1>1. CoreInv => HttpTypeOK
  <2> SUFFICES ASSUME CoreInv PROVE HttpTypeOK
    OBVIOUS
  <2>1. \A j \in DOMAIN served : served[j] \in ServedSet
    BY SMT DEF CoreInv, HttpTypeInv
  <2>2. \A j \in DOMAIN output : output[j] \in PieceSet
    BY SMT DEF CoreInv, HttpTypeInv
  <2> QED
    BY <2>1, <2>2 DEF CoreInv, HttpTypeInv, HttpTypeOK, ServedSet, PieceSet
<1> QED
  BY <1>1, CoreHolds, PTL

-----------------------------------------------------------------------------
(* Reads that take bytes nobody sent for bytes of a request. *)

(* Once one has done that the connection stays as it is. *)
LEMMA CleanSteps ==
  ASSUME [HttpNext]_connVars, Clean'
  PROVE  Clean /\ ~ReadStale /\ ~Misread
<1>1. ~ReadStale /\ ~Misread
  BY DEF ReadStale, Misread, readerVars, Clean
<1>2. ASSUME pc = "foul" PROVE FALSE
  <2>1. pc' # "foul"
    BY DEF Clean
  <2> QED
    BY <1>2, <1>1, <2>1
    DEF HttpNext, Client, Server, ReadRequest, ReadHead, HeadTooLarge, HeadCutShort,
        HeadRejected, BeginLength, BeginChunked, BeginUnframed, Parsed, ReadExact,
        ExactCutShort, ReadMore, ReadMoreAgain, ChunkSize, ChunkData, ChunkEnd, Decoding,
        Answer, WriteResponse, WritePiece, WriteFails, WriteMiscounts, WriteBreaksOff,
        NextRequest, CloseSocket, connVars, readerVars
<1> QED
  BY <1>1, <1>2 DEF Clean

-----------------------------------------------------------------------------
(* Bodies. *)

(* What BodiesArePrefixes and BodiesBounded say of one body of request i. *)
GoodBody(i, b) ==
  /\ wire[i].framing # "none" =>
       /\ b \subseteq BodyBytes(wire[i])
       /\ \A p \in BodyBytes(wire[i]), q \in b : p < q => p \in b
  /\ Cardinality(b) <=
       IF wire[i].framing = "none" THEN MaxHeader + ReadBlock ELSE MaxBody

(* The data of the chunks before c. *)
Decoded(r, c) == UNION {ChunkBytes(r, k) : k \in 1 .. c - 1}

BodyInv ==
  /\ pc = "head" => body = {} /\ Accumulated <= MaxHeader + ReadBlock
  /\ pc = "exact" => body = After(cur)
  /\ Decoding => body = Decoded(wire[cur], chunk) /\ Cardinality(body) <= MaxBody
  /\ pc = "handle" => GoodBody(cur, body)

ServedInv == \A j \in DOMAIN served : GoodBody(served[j].of, served[j].body)

(* How many bytes there are from one position to another. *)
LEMMA IntervalSize ==
  ASSUME NEW a \in Nat, NEW b \in Nat, a <= b
  PROVE  Cardinality(a + 1 .. b) = b - a
<1>1. a + 1 \in Int /\ b \in Int
  BY SMT
<1>2. Cardinality(a + 1 .. b) = IF a + 1 > b THEN 0 ELSE b - (a + 1) + 1
  BY <1>1, FS_Interval
<1> QED
  BY <1>2, SMT

(* A handler may get no body at all. *)
LEMMA EmptyIsGood == \A i : GoodBody(i, {})
<1>1. Cardinality({}) = 0 /\ 0 <= MaxBody /\ 0 <= MaxHeader + ReadBlock
  BY FS_EmptySet, SMT
<1> QED
  BY <1>1 DEF GoodBody

(* The beginning of a body with a length is good. *)
LEMMA LengthIsGood ==
  ASSUME NEW i \in DOMAIN wire, wire \in Wires, wire[i].framing = "length",
         Acceptable(wire[i]), NEW n \in Nat, wire[i].head <= n, n <= wire[i].to
  PROVE  GoodBody(i, wire[i].head + 1 .. n)
<1>1. wire[i].head \in Nat /\ wire[i].to \in Nat /\ wire[i].to - wire[i].head <= MaxBody
  BY WireFacts DEF Acceptable
<1>2. BodyBytes(wire[i]) = wire[i].head + 1 .. wire[i].to
  BY DEF BodyBytes
<1>3. Cardinality(wire[i].head + 1 .. n) <= MaxBody
  BY <1>1, IntervalSize, SMT
<1>4. /\ wire[i].head + 1 .. n \subseteq wire[i].head + 1 .. wire[i].to
      /\ \A p \in wire[i].head + 1 .. wire[i].to, q \in wire[i].head + 1 .. n :
           p < q => p \in wire[i].head + 1 .. n
  BY <1>1, SMT
<1> QED
  BY <1>2, <1>3, <1>4 DEF GoodBody

(* So are the chunks that come first. *)
LEMMA DecodedIsGood ==
  ASSUME NEW i \in DOMAIN wire, wire \in Wires, wire[i].framing = "chunked",
         NEW c \in 1 .. Len(wire[i].sizes) + 1, Cardinality(Decoded(wire[i], c)) <= MaxBody
  PROVE  GoodBody(i, Decoded(wire[i], c))
<1> DEFINE r == wire[i]
<1>1. /\ Len(r.sizes) \in Nat /\ DOMAIN r.sizes = 1 .. Len(r.sizes)
      /\ \A k \in 1 .. Len(r.sizes) : r.at[k] \in Nat /\ r.sizes[k] \in Nat \ {0}
      /\ \A j, k \in 1 .. Len(r.sizes) : j < k => r.at[j] + 3 + r.sizes[j] + 2 <= r.at[k]
  <2>1. r \in Request /\ LaidOut(r)
    BY WireFacts
  <2>2. \A k : k \in 1 .. Len(r.sizes) => k \in 1 .. Len(r.sizes) + 1
    BY <2>1, ChunkFacts, SMT
  <2> QED
    BY <2>1, <2>2, ChunkFacts, Zenon
<1>2. 1 .. c - 1 \subseteq 1 .. Len(r.sizes)
  BY <1>1, SMT
<1>3. Decoded(r, c) \subseteq BodyBytes(r)
  BY <1>1, <1>2 DEF Decoded, BodyBytes
<1>4. ASSUME NEW p \in BodyBytes(r), NEW q \in Decoded(r, c), p < q
      PROVE  p \in Decoded(r, c)
  <2>1. PICK j \in 1 .. Len(r.sizes) : p \in ChunkBytes(r, j)
    BY <1>1 DEF BodyBytes
  <2>2. PICK k \in 1 .. c - 1 : q \in ChunkBytes(r, k)
    BY DEF Decoded
  <2>3. /\ r.at[j] \in Nat /\ r.sizes[j] \in Nat /\ r.at[k] \in Nat /\ r.sizes[k] \in Nat
        /\ k < j => r.at[k] + 3 + r.sizes[k] + 2 <= r.at[j]
    BY <1>1, <1>2, <2>1, <2>2
  <2>4. p \in r.at[j] + 3 + 1 .. r.at[j] + 3 + r.sizes[j]
        /\ q \in r.at[k] + 3 + 1 .. r.at[k] + 3 + r.sizes[k]
    BY <2>1, <2>2 DEF ChunkBytes, LineLen
  <2>5. \A a, b, m, n \in Nat :
          \A x \in a + 3 + 1 .. a + 3 + m, y \in b + 3 + 1 .. b + 3 + n :
            x < y => ~(b + 3 + n + 2 <= a)
    BY SMT
  <2>6. ~(k < j)
    BY <1>4, <2>3, <2>4, <2>5, Zenon
  <2>7. j \in 1 .. c - 1
    BY <1>1, <2>6, SMT
  <2> QED
    BY <2>1, <2>7 DEF Decoded
<1> QED
  BY <1>3, <1>4 DEF GoodBody

(* The decoder has appended one more chunk. *)
LEMMA DecodedNext ==
  ASSUME NEW r, NEW c \in Nat \ {0}
  PROVE  Decoded(r, c) \cup ChunkBytes(r, c) = Decoded(r, c + 1)
<1>1. \A k : k \in 1 .. (c + 1) - 1 <=> k \in 1 .. c - 1 \/ k = c
  BY SMT
<1> QED
  BY <1>1 DEF Decoded

(* Bodies that are handed on stay as good as they are. *)
LEMMA ServedKept ==
  ASSUME ServedInv, wire' = wire, UNCHANGED served
  PROVE  ServedInv'
BY DEF ServedInv, GoodBody

(* Outside of requests there is no body. *)
LEMMA NoBody ==
  ASSUME pc' \in {"write", "closing", "closed"} \/
         (pc' = "head" /\ body' = {} /\ Accumulated' <= MaxHeader + ReadBlock)
  PROVE  BodyInv'
BY DEF BodyInv, Decoding

(* A body that is ready for the handler. *)
LEMMA BodyReady ==
  ASSUME pc' = "handle", wire' = wire, GoodBody(cur', body')
  PROVE  BodyInv'
BY DEF BodyInv, Decoding, GoodBody

(* read_request collects the body from its beginning, without gaps. *)
LEMMA ReadBody ==
  ASSUME CoreInv, BodyInv, ReadRequest, ~ReadStale
  PROVE  BodyInv'
<1> USE DEF CoreInv
<1>0. taken \in Nat /\ start \in Nat /\ wire \in Wires
  BY TypeFacts DEF HttpTypeInv
<1>1. CASE ReadHead
  <2>1. PICK n : Recv(ReadBlock, n)
    BY <1>1 DEF ReadHead
  <2>2. Accumulated' <= MaxHeader + ReadBlock
    BY <1>0, <1>1, <2>1, RecvFacts, SMT DEF ReadHead, readerVars, Accumulated
  <2> QED
    BY <1>1, <2>2, NoBody DEF ReadHead, readerVars, BodyInv
<1>2. CASE HeadTooLarge \/ HeadCutShort \/ HeadRejected
  BY <1>2, NoBody DEF HeadTooLarge, HeadCutShort, HeadRejected, Refuse
<1>3. ASSUME NEW i \in DOMAIN wire, BeginLength(i) \/ BeginChunked(i) \/ BeginUnframed(i)
      PROVE  BodyInv'
  <2>1. /\ Parsed(i, wire[i].framing) /\ pc = "head" /\ chunk = 1 /\ body = {}
        /\ UNCHANGED <<wire, taken, start, chunk>> /\ cur' = i
        /\ Terminated /\ wire[i].from = start /\ Acceptable(wire[i])
    BY <1>3 DEF BeginLength, BeginChunked, BeginUnframed, Parsed, streamVars, CurInv, BodyInv
  <2>2. /\ wire[i].head \in Nat /\ wire[i].to \in Nat /\ wire[i].head <= wire[i].to
        /\ wire[i].head <= taken /\ start < wire[i].head
    BY <1>0, <2>1, ParsedHead, WireFacts
  <2>3. CASE BeginLength(i)
    <3>1. wire[i].framing = "length" /\ body' = After(i) \cap BodyBytes(wire[i])
          /\ BodyBytes(wire[i]) = wire[i].head + 1 .. wire[i].to
      BY <2>3 DEF BeginLength, Parsed, BodyBytes
    <3>2. CASE wire[i].to <= taken
      <4>1. body' = wire[i].head + 1 .. wire[i].to
        BY <1>0, <2>2, <3>1, <3>2, SMT DEF After
      <4>2. GoodBody(i, body')
        <5>1. wire[i].to <= wire[i].to
          BY <2>2, SMT
        <5> QED
          BY <1>0, <2>1, <2>2, <3>1, <4>1, <5>1, LengthIsGood
      <4> QED
        BY <2>1, <2>3, <3>2, <4>2, BodyReady DEF BeginLength, Deliver
    <3>3. CASE ~(wire[i].to <= taken)
      <4>1. body' = After(i)
        <5>1. After(i) \subseteq wire[i].head + 1 .. wire[i].to
          BY <1>0, <2>2, <3>3, SMT DEF After
        <5> QED
          BY <3>1, <5>1
      <4>2. After(i) = After(cur)'
        BY <2>1 DEF After
      <4>3. pc' = "exact"
        BY <2>3, <3>3 DEF BeginLength
      <4> QED
        BY <4>1, <4>2, <4>3 DEF BodyInv, Decoding
    <3> QED
      BY <3>2, <3>3
  <2>4. CASE BeginChunked(i)
    <3>1. pc' = "size" /\ body' = {} /\ chunk' = 1
      BY <2>1, <2>4 DEF BeginChunked
    <3>2. Cardinality({}) <= MaxBody
      BY FS_EmptySet, SMT
    <3>3. Decoded(wire'[cur'], chunk') = {}
      <4>1. 1 .. 1 - 1 = {}
        BY SMT
      <4> QED
        BY <3>1, <4>1 DEF Decoded
    <3>4. Decoded(wire[cur], chunk)' = {}
      BY <3>3 DEF Decoded, ChunkBytes
    <3> QED
      BY <3>1, <3>2, <3>4 DEF BodyInv, Decoding
  <2>5. CASE BeginUnframed(i)
    <3>1. wire[i].framing = "none" /\ body' = wire[i].head + 1 .. taken
      BY <2>5 DEF BeginUnframed, Parsed, After
    <3>2. Cardinality(body') = taken - wire[i].head
      BY <1>0, <2>2, <3>1, IntervalSize
    <3>3. Cardinality(body') <= MaxHeader + ReadBlock
      BY <1>0, <2>1, <2>2, <3>2, SMT DEF BodyInv, Accumulated
    <3> QED
      BY <2>1, <2>5, <3>1, <3>3, BodyReady DEF BeginUnframed, Deliver, GoodBody
  <2> QED
    BY <1>3, <2>3, <2>4, <2>5
<1>4. CASE ReadExact \/ ExactCutShort
  <2>1. /\ cur \in DOMAIN wire /\ wire[cur].head \in Nat /\ wire[cur].to \in Nat
        /\ pc = "exact" /\ wire[cur].framing = "length" /\ Acceptable(wire[cur])
        /\ wire[cur].head <= taken /\ taken < wire[cur].to
        /\ body = wire[cur].head + 1 .. taken
    BY <1>4, WireFacts
    DEF ReadExact, ExactCutShort, CurInv, BodyInv, InRequest, HttpTypeInv, After
  <2>2. CASE ReadExact
    <3>1. PICK n \in 1 .. ReadBlock :
            /\ Recv(Want, n) /\ body' = body \cup (taken + 1 .. taken + n)
            /\ IF n = Missing THEN Deliver ELSE UNCHANGED pc
      BY <2>2 DEF ReadExact
    <3>2. Want \in Nat /\ Want <= wire[cur].to - taken
      BY <1>0, <2>1, SMT DEF Want, Missing
    <3>3. /\ n \in Nat /\ n <= Want /\ taken' = taken + n /\ taken' \in Nat
          /\ wire' = wire /\ cur' = cur
      BY <2>2, <3>1, <3>2, RecvFacts DEF ReadExact
    <3>4. body' = wire[cur].head + 1 .. taken'
      BY <1>0, <2>1, <3>1, <3>3, SMT
    <3>5. wire[cur].head <= taken' /\ taken' <= wire[cur].to
      BY <1>0, <2>1, <3>2, <3>3, SMT
    <3>6. CASE pc' = "handle"
      <4>1. GoodBody(cur, body')
        BY <1>0, <2>1, <3>3, <3>4, <3>5, LengthIsGood
      <4> QED
        BY <3>3, <3>6, <4>1, BodyReady
    <3>7. CASE pc' = "exact"
      BY <3>3, <3>4, <3>7 DEF BodyInv, Decoding, After
    <3> QED
      BY <2>1, <3>1, <3>6, <3>7 DEF Deliver
  <2>3. CASE ExactCutShort
    <3>1. GoodBody(cur, body)
      BY <1>0, <2>1, LengthIsGood, SMT
    <3> QED
      BY <2>3, <3>1, BodyReady DEF ExactCutShort, Deliver, streamVars
  <2> QED
    BY <1>4, <2>2, <2>3
<1>5. CASE ReadMore \/ ReadMoreAgain
  <2>1. UNCHANGED <<wire, pc, cur, body, chunk>> /\ Decoding
    BY <1>5 DEF ReadMore, ReadMoreAgain, Recv, streamVars, readerVars
  <2> QED
    BY <2>1 DEF BodyInv, Decoding, Decoded, ChunkBytes
<1>6. CASE ChunkSize \/ ChunkData \/ ChunkEnd
  <2>1. Decoding /\ UNCHANGED <<wire, taken, start, cur>>
    BY <1>6 DEF ChunkSize, ChunkData, ChunkEnd, Decoding, streamVars
  <2>2. /\ cur \in DOMAIN wire /\ wire[cur].framing = "chunked" /\ chunk \in Nat \ {0}
        /\ chunk \in 1 .. Len(wire[cur].sizes) + 1
        /\ body = Decoded(wire[cur], chunk) /\ Cardinality(body) <= MaxBody
    BY <2>1, DecoderFacts DEF BodyInv, HttpTypeInv
  <2>3. CASE ChunkError /\ pc' = "handle"
    BY <2>1, <2>3, EmptyIsGood, BodyReady DEF ChunkError
  <2>4. CASE ChunkSize /\ ~ChunkError
    <3>1. pc' \in {"size", "data", "last"} /\ UNCHANGED <<wire, cur, body, chunk>>
      BY <2>1, <2>4 DEF ChunkSize
    <3> QED
      BY <2>1, <2>2, <3>1 DEF BodyInv, Decoding, Decoded, ChunkBytes
  <2>5. CASE ChunkData /\ ~ChunkError
    <3> DEFINE out == body \cup ChunkBytes(wire[cur], chunk)
    <3>1. /\ ~(Cardinality(out) > MaxBody) /\ body' = out /\ chunk' = chunk + 1 /\ pc' = "size"
      BY <2>5 DEF ChunkData
    <3>2. out = Decoded(wire[cur], chunk + 1)
      BY <2>2, DecodedNext
    <3>3. Cardinality(out) <= MaxBody
      <4>1. out \subseteq 1 .. taken
        <5>1. UNCHANGED taken /\ At \in Nat /\ wire[cur].sizes[chunk] \in Nat \ {0}
              /\ taken >= At + (3 + (wire[cur].sizes[chunk] + 2))
          BY <2>1, <2>5, DecoderFacts
          DEF ChunkData, Decoding, Buffered, Needed, LineLen, CrlfLen
        <5>2. ChunkBytes(wire[cur], chunk) \subseteq 1 .. taken
          BY <1>0, <5>1, SMT DEF ChunkBytes, LineLen, At
        <5> QED
          BY <5>2 DEF HttpTypeInv
      <4>2. IsFiniteSet(1 .. taken)
        BY <1>0, FS_Interval, SMT
      <4>3. Cardinality(out) \in Nat
        BY <4>1, <4>2, FS_Subset, FS_CardinalityType
      <4> HIDE DEF out
      <4> QED
        BY <3>1, <4>3, SMT
    <3> QED
      BY <2>1, <3>1, <3>2, <3>3 DEF BodyInv, Decoding, Decoded, ChunkBytes
  <2>6. CASE ChunkEnd
    BY <1>0, <2>1, <2>2, <2>6, DecodedIsGood, BodyReady DEF ChunkEnd, Deliver
  <2>7. ChunkError => pc' = "handle"
    BY DEF ChunkError, Deliver
  <2> QED
    BY <1>6, <2>3, <2>4, <2>5, <2>6, <2>7
<1> QED
  BY <1>1, <1>2, <1>3, <1>4, <1>5, <1>6 DEF ReadRequest

(* Every step keeps what is collected, and what was served, good. *)
LEMMA BodyStep ==
  CoreInv /\ (Clean => BodyInv /\ ServedInv) /\ [HttpNext]_connVars
    => (Clean => BodyInv /\ ServedInv)'
<1> SUFFICES ASSUME CoreInv, Clean => BodyInv /\ ServedInv, [HttpNext]_connVars, Clean'
             PROVE  BodyInv' /\ ServedInv'
  OBVIOUS
<1>a. BodyInv /\ ServedInv /\ ~ReadStale /\ ~Misread
  BY CleanSteps
<1>0. taken \in Nat /\ start \in Nat /\ 0 <= MaxHeader + ReadBlock /\ taken - taken = 0
  BY TypeFacts, SMT DEF CoreInv
<1>1. CASE Client \/ UNCHANGED connVars
  <2>1. UNCHANGED <<wire, taken, pc, start, cur, body, chunk, served>>
    BY <1>1 DEF Client, Arrives, Closes, Resets, connVars, streamVars, readerVars
  <2>2. BodyInv'
    BY <1>a, <2>1 DEF BodyInv, Decoding, Accumulated, After, Decoded, ChunkBytes, GoodBody
  <2> QED
    BY <1>a, <2>1, <2>2, ServedKept
<1>2. CASE ReadRequest /\ UNCHANGED <<writerVars, served>>
  <2>1. wire' = wire
    BY <1>a, <1>2
    DEF ReadRequest, ReadHead, HeadTooLarge, HeadCutShort, HeadRejected, BeginLength,
        BeginChunked, BeginUnframed, Parsed, ReadExact, ExactCutShort, ReadMore, ReadMoreAgain,
        ChunkSize, ChunkData, ChunkEnd, Recv, streamVars
  <2> QED
    BY <1>a, <1>2, <2>1, ReadBody, ServedKept
<1>3. CASE Answer
  <2>1. /\ pc = "handle" /\ pc' = "write" /\ wire' = wire
        /\ served' = Append(served, [of |-> cur, body |-> body, failed |-> failed])
    BY <1>3 DEF Answer, streamVars
  <2>2. served \in Seq(ServedSet)
    BY DEF CoreInv, HttpTypeInv
  <2>3. \A j \in DOMAIN served' : \/ j \in DOMAIN served /\ served'[j] = served[j]
                                 \/ served'[j] = [of |-> cur, body |-> body, failed |-> failed]
    BY <2>1, <2>2, SMT
  <2>4. GoodBody(cur, body)
    BY <1>a, <2>1 DEF BodyInv
  <2>5. \A j \in DOMAIN served' : GoodBody(served'[j].of, served'[j].body)
    BY <1>a, <2>3, <2>4 DEF ServedInv
  <2> QED
    BY <2>1, <2>5, NoBody DEF ServedInv, GoodBody
<1>4. CASE (WriteResponse /\ UNCHANGED served) \/ NextRequest \/ CloseSocket
  <2>1. UNCHANGED <<wire, taken, served>>
    BY <1>4
    DEF WriteResponse, WritePiece, WriteFails, WriteMiscounts, WriteBreaksOff, NextRequest,
        CloseSocket, streamVars
  <2>2. \/ pc' \in {"write", "closing", "closed"}
        \/ pc' = "head" /\ body' = {} /\ start' = taken
    BY <1>4
    DEF WriteResponse, WritePiece, WriteFails, WriteMiscounts, WriteBreaksOff, NextRequest,
        CloseSocket, NewReader, Refuse, readerVars
  <2>3. start' = taken => Accumulated' <= MaxHeader + ReadBlock
    BY <1>0, <2>1, SMT DEF Accumulated
  <2> QED
    BY <1>a, <2>1, <2>2, <2>3, NoBody, ServedKept
<1> QED
  BY <1>a, <1>1, <1>2, <1>3, <1>4 DEF HttpNext, Server

(* So all bodies are good, always. *)
LEMMA BodyHolds == HttpSpec => [](CoreInv /\ (Clean => BodyInv /\ ServedInv))
<1>1. HttpInit => BodyInv /\ ServedInv
  <2> SUFFICES ASSUME HttpInit PROVE BodyInv /\ ServedInv
    OBVIOUS
  <2>1. 0 - 0 <= MaxHeader + ReadBlock /\ DOMAIN <<>> = {}
    BY SMT
  <2> QED
    BY <2>1
    DEF HttpInit, ReaderInit, StreamInit, BodyInv, ServedInv, Decoding, Accumulated
<1> QED
  BY <1>1, CoreInit, CoreStep, BodyStep, PTL DEF HttpSpec

(* What the handler gets as a body is a prefix of what the client sent as the
   body of that request: see BodiesArePrefixes. *)
THEOREM PrefixesServed == HttpSpec => []BodiesArePrefixes
<1>1. (Clean => ServedInv) => BodiesArePrefixes
  BY DEF ServedInv, GoodBody, BodiesArePrefixes
<1> QED
  BY <1>1, BodyHolds, PTL

(* If it has a length or chunks it is within max_body_bytes: see BodiesBounded. *)
THEOREM BoundedBodies == HttpSpec => []BodiesBounded
<1>1. (Clean => ServedInv) => BodiesBounded
  BY DEF ServedInv, GoodBody, BodiesBounded
<1> QED
  BY <1>1, BodyHolds, PTL

(* The reader accumulates at most a block beyond the limit on heads. *)
THEOREM BoundedHeaders == HttpSpec => []HeadersBounded
<1>1. (Clean => BodyInv) => HeadersBounded
  BY DEF BodyInv, HeadersBounded, Clean
<1> QED
  BY <1>1, BodyHolds, PTL

-----------------------------------------------------------------------------
(* Order. *)

(* The heads of requests that were served lie before the bytes the reader has
   accumulated, and before all that is still to come. *)
OrderInv ==
  /\ ServedInOrder
  /\ \A j \in DOMAIN served : wire[served[j].of].head <= taken
  /\ pc \in InRequest \cup {"head"} =>
       \A j \in DOMAIN served : wire[served[j].of].head <= start

(* A new reader begins behind the heads of all requests that were served. *)
LEMMA OrderStep ==
  CoreInv /\ (Clean => OrderInv) /\ [HttpNext]_connVars => (Clean => OrderInv)'
<1> SUFFICES ASSUME CoreInv, Clean => OrderInv, [HttpNext]_connVars, Clean' PROVE OrderInv'
  OBVIOUS
<1>a. OrderInv /\ Clean /\ ~ReadStale /\ ~Misread
  BY CleanSteps
<1>0. /\ taken \in Nat /\ start \in Nat /\ wire \in Wires /\ served \in Seq(ServedSet)
      /\ \A j \in DOMAIN served : served[j].of \in DOMAIN wire
      /\ \A j \in DOMAIN served : wire[served[j].of].head \in Nat
  <2>1. served \in Seq(ServedSet) /\ wire \in Wires
    BY DEF CoreInv, HttpTypeInv
  <2>2. \A j \in DOMAIN served : served[j] \in ServedSet
    BY <2>1, SMT
  <2>3. \A j \in DOMAIN served : served[j].of \in DOMAIN wire
    BY <2>2 DEF ServedSet
  <2> QED
    BY <2>1, <2>3, TypeFacts, WireFacts DEF CoreInv
(* It is enough that nothing is served and no more than the rest is read. *)
<1>1. ASSUME UNCHANGED <<wire, served>>, taken' \in Nat, taken <= taken',
             \/ pc' \notin InRequest \cup {"head"}
             \/ start' = taken /\ taken' = taken
             \/ start' = start /\ pc \in InRequest \cup {"head"}
      PROVE  OrderInv'
  <2>1. \A j \in DOMAIN served : wire[served[j].of].head <= taken'
    BY <1>a, <1>0, <1>1, SMT DEF OrderInv
  <2> QED
    BY <1>a, <1>1, <2>1 DEF OrderInv, ServedInOrder
<1>2. CASE Client \/ UNCHANGED connVars
  <2>1. UNCHANGED <<wire, taken, pc, start, served>> /\ taken <= taken
    BY <1>0, <1>2, SMT DEF Client, Arrives, Closes, Resets, connVars, streamVars, readerVars
  <2> QED
    BY <1>0, <1>1, <2>1
<1>3. CASE ReadRequest /\ UNCHANGED <<writerVars, served>>
  <2>1. UNCHANGED <<wire, start>> /\ pc \in InRequest \cup {"head"}
    BY <1>a, <1>3
    DEF ReadRequest, ReadHead, HeadTooLarge, HeadCutShort, HeadRejected, BeginLength,
        BeginChunked, BeginUnframed, Parsed, ReadExact, ExactCutShort, ReadMore, ReadMoreAgain,
        ChunkSize, ChunkData, ChunkEnd, Recv, streamVars, readerVars, Decoding, InRequest
  <2>2. taken' \in Nat /\ taken <= taken'
    <3>1. CASE UNCHANGED taken
      BY <1>0, <3>1, SMT
    <3>2. ASSUME NEW most, NEW n, Recv(most, n)
          PROVE  taken' \in Nat /\ taken <= taken'
      BY <1>0, <3>2, SMT DEF Recv
    <3>3. UNCHANGED taken \/ \E most, n : Recv(most, n)
      BY <1>a, <1>3
      DEF ReadRequest, ReadHead, HeadTooLarge, HeadCutShort, HeadRejected, BeginLength,
          BeginChunked, BeginUnframed, Parsed, ReadExact, ExactCutShort, ReadMore,
          ReadMoreAgain, ChunkSize, ChunkData, ChunkEnd, streamVars
    <3> QED
      BY <3>1, <3>2, <3>3
  <2> QED
    BY <1>1, <1>3, <2>1, <2>2
<1>4. CASE Answer
  <2>1. /\ pc = "handle" /\ pc' = "write" /\ UNCHANGED <<wire, taken>>
        /\ served' = Append(served, [of |-> cur, body |-> body, failed |-> failed])
        /\ cur \in DOMAIN wire /\ wire[cur].from = start /\ wire[cur].head <= taken
    BY <1>4 DEF Answer, streamVars, CoreInv, CurInv, InRequest, HttpTypeInv
  <2>2. \A j \in DOMAIN served : served[j].of < cur
    <3> TAKE j \in DOMAIN served
    <3> DEFINE i == served[j].of
    <3>1. /\ i \in DOMAIN wire /\ wire[i].head <= start
      BY <1>a, <1>0, <2>1 DEF OrderInv, InRequest
    <3>2. /\ i \in Nat /\ cur \in Nat
          /\ cur < i => wire[cur].to <= wire[i].from
          /\ wire[cur].from \in Nat /\ wire[cur].to \in Nat /\ wire[cur].head \in Nat
          /\ wire[i].from \in Nat /\ wire[i].head \in Nat
          /\ wire[i].from + 4 < wire[i].head
          /\ wire[cur].from + 4 < wire[cur].head /\ wire[cur].head <= wire[cur].to
      <4>1. /\ Len(wire) \in Nat /\ DOMAIN wire = 1 .. Len(wire)
            /\ \A m, n \in DOMAIN wire : m < n => wire[m].to <= wire[n].from
            /\ \A m \in DOMAIN wire :
                 /\ wire[m].from \in Nat /\ wire[m].to \in Nat /\ wire[m].head \in Nat
                 /\ wire[m].from + 4 < wire[m].head /\ wire[m].head <= wire[m].to
        BY <1>0, WireFacts
      <4>2. i \in Nat /\ cur \in Nat
        BY <2>1, <3>1, <4>1, SMT
      <4> QED
        BY <2>1, <3>1, <4>1, <4>2, Zenon
    <3> HIDE DEF i
    <3>3. ~(cur < i) /\ cur # i
      <4>1. \A f, h, t, g, k \in Nat :
              f + 4 < h /\ h <= t /\ g + 4 < k /\ k <= f => ~(t <= g)
        BY SMT
      <4>2. \A f, h \in Nat : f + 4 < h => ~(h <= f)
        BY SMT
      <4>3. wire[i].head <= wire[cur].from
        BY <2>1, <3>1
      <4>4. ~(cur < i)
        BY <3>2, <4>1, <4>3, Zenon
      <4>5. cur # i
        BY <3>2, <4>2, <4>3, Zenon
      <4> QED
        BY <4>4, <4>5
    <3>4. i < cur
      BY <3>2, <3>3, SMT
    <3> QED
      BY <3>4 DEF i
  <2>3. /\ \A j \in DOMAIN served' : \/ j \in DOMAIN served /\ served'[j] = served[j]
                                    \/ served'[j] = [of |-> cur, body |-> body, failed |-> failed]
        /\ \A j, k \in DOMAIN served' :
             j < k => j \in DOMAIN served /\ served'[j] = served[j]
    BY <1>0, <2>1, SMT
  <2>4. \A j, k \in DOMAIN served' : j < k => served'[j].of < served'[k].of
    <3> TAKE j, k \in DOMAIN served'
    <3> HAVE j < k
    <3>1. CASE k \in DOMAIN served /\ served'[k] = served[k]
      BY <1>a, <2>3, <3>1 DEF OrderInv, ServedInOrder
    <3>2. CASE served'[k] = [of |-> cur, body |-> body, failed |-> failed]
      BY <2>2, <2>3, <3>2
    <3> QED
      BY <2>3, <3>1, <3>2
  <2>5. \A j \in DOMAIN served' : wire[served'[j].of].head <= taken
    BY <1>a, <2>1, <2>3 DEF OrderInv
  <2> QED
    BY <2>1, <2>4, <2>5 DEF OrderInv, ServedInOrder, InRequest
<1>5. CASE (WriteResponse /\ UNCHANGED served) \/ NextRequest \/ CloseSocket
  <2>1. UNCHANGED <<wire, taken, served>> /\ taken <= taken
    BY <1>0, <1>5, SMT
    DEF WriteResponse, WritePiece, WriteFails, WriteMiscounts, WriteBreaksOff, NextRequest,
        CloseSocket, streamVars
  <2>2. pc' \in {"write", "closing", "closed"} \/ start' = taken
    BY <1>5
    DEF WriteResponse, WritePiece, WriteFails, WriteMiscounts, WriteBreaksOff, NextRequest,
        CloseSocket, NewReader, Refuse, readerVars
  <2> QED
    BY <1>0, <1>1, <2>1, <2>2 DEF InRequest
<1> QED
  BY <1>a, <1>2, <1>3, <1>4, <1>5 DEF HttpNext, Server

(* Nothing is served at first. *)
LEMMA OrderInit == HttpInit => OrderInv
<1>1. DOMAIN <<>> = {}
  BY SMT
<1> QED
  BY <1>1 DEF HttpInit, OrderInv, ServedInOrder

(* No request is served twice or after a later one: see ServedInOrder. *)
THEOREM OrderKept == HttpSpec => []ServedInOrder
<1>1. (Clean => OrderInv) => ServedInOrder
  BY DEF OrderInv, ServedInOrder
<1> QED
  BY <1>1, OrderInit, CoreInit, CoreStep, OrderStep, PTL DEF HttpSpec

-----------------------------------------------------------------------------
(* Bodies that are not whole. *)

(* What BodiesWhole says of one body of request i. *)
Whole(i, b, f) ==
  wire[i].framing # "none" /\ b # BodyBytes(wire[i]) =>
    IF wire[i].framing = "length" THEN fin \/ gone \/ f ELSE b = {}

WholeInv ==
  /\ pc = "handle" => Whole(cur, body, failed)
  /\ pc = "last" => chunk = LastChunk(wire[cur])
  /\ \A j \in DOMAIN served : Whole(served[j].of, served[j].body, served[j].failed)

(* All chunks but the last one make up the body. *)
LEMMA DecodedWhole ==
  ASSUME NEW r \in Request, LaidOut(r), r.framing = "chunked"
  PROVE  Decoded(r, LastChunk(r)) = BodyBytes(r)
<1>1. Len(r.sizes) \in Nat /\ DOMAIN r.sizes = 1 .. Len(r.sizes)
  BY ChunkFacts
<1>2. 1 .. LastChunk(r) - 1 = DOMAIN r.sizes
  BY <1>1, SMT DEF LastChunk
<1> QED
  BY <1>2 DEF Decoded, BodyBytes

(* read_request gives up on a body only where the client has gone, a read of
   it has failed, or where it drops what it has decoded. *)
LEMMA ReadWhole ==
  ASSUME CoreInv, BodyInv, WholeInv, ReadRequest, ~ReadStale, UNCHANGED <<writerVars, served>>
  PROVE  WholeInv'
<1> USE DEF CoreInv
<1>0. taken \in Nat /\ wire \in Wires
  BY TypeFacts DEF HttpTypeInv
<1>1. UNCHANGED <<wire, fin, gone>>
  BY DEF ReadRequest, ReadHead, HeadTooLarge, HeadCutShort, HeadRejected, BeginLength,
         BeginChunked, BeginUnframed, Parsed, ReadExact, ExactCutShort, ReadMore,
         ReadMoreAgain, ChunkSize, ChunkData, ChunkEnd, Recv, streamVars
<1>2. \A j \in DOMAIN served' : Whole(served[j].of, served[j].body, served[j].failed)'
  BY <1>1 DEF WholeInv, Whole
(* So it is enough to look at the request at hand. *)
<1>3. ASSUME pc' # "last", pc' = "handle" => Whole(cur, body, failed)'
      PROVE  WholeInv'
  BY <1>2, <1>3 DEF WholeInv
<1>4. CASE \/ ReadHead \/ HeadTooLarge \/ HeadCutShort \/ HeadRejected
  BY <1>3, <1>4
  DEF ReadHead, HeadTooLarge, HeadCutShort, HeadRejected, Refuse, readerVars
<1>5. CASE ReadMore \/ ReadMoreAgain
  <2>1. UNCHANGED <<pc, cur, chunk>> /\ Decoding
    BY <1>5 DEF ReadMore, ReadMoreAgain, readerVars
  <2> QED
    BY <1>1, <1>2, <2>1 DEF WholeInv, Decoding, LastChunk
<1>6. ASSUME NEW i \in DOMAIN wire, BeginLength(i) \/ BeginChunked(i) \/ BeginUnframed(i)
      PROVE  WholeInv'
  <2>1. CASE BeginLength(i)
    <3>1. /\ cur' = i /\ BodyBytes(wire[i]) = wire[i].head + 1 .. wire[i].to
          /\ body' = (wire[i].head + 1 .. taken) \cap BodyBytes(wire[i])
          /\ pc' # "last"
          /\ pc' = "handle" => wire[i].to <= taken
      BY <2>1 DEF BeginLength, Parsed, Deliver, BodyBytes, After
    <3>2. wire[i].head \in Nat /\ wire[i].to \in Nat
      BY <1>0, WireFacts
    <3>3. pc' = "handle" => body' = BodyBytes(wire[i])
      <4>1. wire[i].to <= taken =>
              (wire[i].head + 1 .. taken) \cap (wire[i].head + 1 .. wire[i].to)
                = wire[i].head + 1 .. wire[i].to
        BY <1>0, <3>2, SMT
      <4> QED
        BY <3>1, <4>1
    <3> QED
      BY <1>1, <1>3, <3>1, <3>3 DEF Whole
  <2>2. CASE BeginChunked(i)
    BY <1>3, <2>2 DEF BeginChunked
  <2>3. CASE BeginUnframed(i)
    BY <1>1, <1>3, <2>3 DEF BeginUnframed, Parsed, Deliver, Whole
  <2> QED
    BY <1>6, <2>1, <2>2, <2>3
<1>7. CASE ReadExact \/ ExactCutShort
  <2>1. /\ cur \in DOMAIN wire /\ wire[cur].head \in Nat /\ wire[cur].to \in Nat
        /\ pc = "exact" /\ wire[cur].framing = "length"
        /\ wire[cur].head <= taken /\ taken < wire[cur].to
        /\ body = wire[cur].head + 1 .. taken /\ UNCHANGED cur
    BY <1>7, WireFacts
    DEF ReadExact, ExactCutShort, CurInv, BodyInv, InRequest, HttpTypeInv, After
  <2>2. CASE ReadExact
    <3>1. PICK n \in 1 .. ReadBlock :
            /\ body' = body \cup (taken + 1 .. taken + n)
            /\ IF n = Missing THEN Deliver ELSE UNCHANGED pc
      BY <2>2 DEF ReadExact
    <3>2. n = Missing => body' = wire[cur].head + 1 .. wire[cur].to
      BY <1>0, <2>1, <3>1, SMT DEF Missing
    <3>3. pc' = "handle" => body' = BodyBytes(wire[cur])
      BY <2>1, <3>1, <3>2 DEF BodyBytes
    <3>4. pc' # "last"
      BY <2>1, <3>1 DEF Deliver
    <3> QED
      BY <1>1, <1>3, <2>1, <3>3, <3>4 DEF Whole
  <2>3. CASE ExactCutShort
    <3>1. pc' = "handle" /\ (fin \/ gone \/ failed')
      BY <2>3 DEF ExactCutShort, AtEof, Deliver
    <3> QED
      BY <1>1, <1>3, <2>1, <2>3, <3>1 DEF ExactCutShort, Deliver, Whole
  <2> QED
    BY <1>7, <2>2, <2>3
<1>8. CASE ChunkSize \/ ChunkData \/ ChunkEnd
  <2>1. /\ Decoding /\ UNCHANGED cur
        /\ cur \in DOMAIN wire /\ wire[cur] \in Request /\ LaidOut(wire[cur])
        /\ wire[cur].framing = "chunked" /\ body = Decoded(wire[cur], chunk)
    BY <1>8, DecoderFacts DEF ChunkSize, ChunkData, ChunkEnd, Decoding, BodyInv
  <2>2. CASE ChunkError
    BY <1>1, <1>3, <2>1, <2>2 DEF ChunkError, Deliver, Whole
  <2>3. CASE ChunkSize /\ ~ChunkError
    BY <1>1, <1>2, <2>3 DEF ChunkSize, WholeInv, LastChunk
  <2>4. CASE ChunkData /\ ~ChunkError
    BY <1>3, <2>4 DEF ChunkData
  <2>5. CASE ChunkEnd
    <3>1. pc' = "handle" /\ body' = BodyBytes(wire[cur])
      BY <2>1, <2>5, DecodedWhole DEF ChunkEnd, Deliver, WholeInv
    <3> QED
      BY <1>1, <1>3, <2>1, <3>1 DEF Whole
  <2> QED
    BY <1>8, <2>2, <2>3, <2>4, <2>5
<1> QED
  BY <1>4, <1>5, <1>6, <1>7, <1>8 DEF ReadRequest

(* Every step keeps what is known of bodies that are not whole. *)
LEMMA WholeStep ==
  CoreInv /\ (Clean => BodyInv) /\ (Clean => WholeInv) /\ [HttpNext]_connVars
    => (Clean => WholeInv)'
<1> SUFFICES ASSUME CoreInv, Clean => BodyInv, Clean => WholeInv, [HttpNext]_connVars, Clean'
             PROVE  WholeInv'
  OBVIOUS
<1>a. BodyInv /\ WholeInv /\ ~ReadStale /\ ~Misread
  BY CleanSteps
<1>1. CASE Client \/ UNCHANGED connVars
  <2>1. UNCHANGED <<wire, pc, cur, body, chunk, failed, served>> /\ (fin \/ gone => fin' \/ gone')
    BY <1>1 DEF Client, Arrives, Closes, Resets, connVars, streamVars, readerVars
  <2> QED
    BY <1>a, <2>1 DEF WholeInv, Whole, LastChunk
<1>2. CASE ReadRequest /\ UNCHANGED <<writerVars, served>>
  BY <1>a, <1>2, ReadWhole
<1>3. CASE Answer
  <2>1. /\ pc = "handle" /\ pc' = "write" /\ UNCHANGED <<wire, fin, gone>>
        /\ served' = Append(served, [of |-> cur, body |-> body, failed |-> failed])
    BY <1>3 DEF Answer, streamVars
  <2>2. \A j \in DOMAIN served' : \/ j \in DOMAIN served /\ served'[j] = served[j]
                                 \/ served'[j] = [of |-> cur, body |-> body, failed |-> failed]
    BY <2>1, SMT DEF CoreInv, HttpTypeInv
  <2>3. \A j \in DOMAIN served' : Whole(served'[j].of, served'[j].body, served'[j].failed)
    BY <1>a, <2>1, <2>2 DEF WholeInv
  <2> QED
    BY <2>1, <2>3 DEF WholeInv, Whole
<1>4. CASE (WriteResponse /\ UNCHANGED served) \/ NextRequest \/ CloseSocket
  <2>1. UNCHANGED <<wire, fin, gone, served>> /\ pc' \in {"write", "head", "closing", "closed"}
    BY <1>4
    DEF WriteResponse, WritePiece, WriteFails, WriteMiscounts, WriteBreaksOff, NextRequest,
        CloseSocket, NewReader, Refuse, streamVars, readerVars
  <2> QED
    BY <1>a, <2>1 DEF WholeInv, Whole
<1> QED
  BY <1>a, <1>1, <1>2, <1>3, <1>4 DEF HttpNext, Server

(* At first there is no body. *)
LEMMA WholeInit == HttpInit => WholeInv
<1>1. DOMAIN <<>> = {}
  BY SMT
<1> QED
  BY <1>1 DEF HttpInit, ReaderInit, WholeInv

(* A body with a length is whole unless the client has gone or a read of it has
   failed, and one with chunks is whole or empty: see BodiesWhole. *)
THEOREM WholeBodies == HttpSpec => []BodiesWhole
<1>1. (Clean => WholeInv) => BodiesWhole
  BY DEF WholeInv, Whole, BodiesWhole
<1> QED
  BY <1>1, WholeInit, WholeStep, BodyHolds, PTL DEF HttpSpec

-----------------------------------------------------------------------------
(* The output. *)

(* What is left of a response: its pieces follow each other to its end. *)
Remainder(s) ==
  /\ \A k \in 1 .. Len(s) - 1 : <<s[k].part, s[k + 1].part>> \in NextPart
  /\ s # <<>> => s[Len(s)].part \in {"whole", "end"}

(* Piece b may be written next: see Follows. *)
MayFollow(b) ==
  LET a == output[Len(output)]
  IN  IF output = <<>> THEN b.part \in {"whole", "head"}
      ELSE IF a.of = b.of THEN <<a.part, b.part>> \in NextPart
      ELSE a.alive /\ EndsAt(Len(output)) /\ b.part \in {"whole", "head"}

(* The responses to the requests before the j-th have come to an end. *)
EndedBefore(j) == \A i \in 1 .. j - 1 : served[i].of \in Completed

(* What is written begins with a first piece, and goes on as it may. *)
Framed ==
  /\ output # <<>> => output[1].part \in {"whole", "head"}
  /\ \A k \in 1 .. Len(output) - 1 : Follows(k)

(* What is written already and what is still to be written make up whole
   responses, and only the last request may still wait for the rest of its
   response. *)
FrameInv ==
  /\ Framed
  /\ \A k \in DOMAIN output : \E j \in DOMAIN served :
       served[j].of = output[k].of /\ EndedBefore(j)
  /\ EndedBefore(Len(served))
  /\ pc = "write" => served # <<>> /\ served[Len(served)].of = cur
  /\ todo # <<>> => pc = "write" /\ MayFollow(Head(todo))
  /\ Remainder(todo)
  /\ \A k \in DOMAIN todo : todo[k].of = cur /\ (wire[cur].keep => todo[k].alive)
  /\ todo = <<>> => /\ EndedBefore(Len(served) + 1)
                    /\ output # <<>> => EndsAt(Len(output))
  /\ pc = "write" /\ todo = <<>> =>
       output # <<>> /\ (wire[cur].keep => output[Len(output)].alive)
  /\ pc \in InRequest \cup {"head"} => (output # <<>> => output[Len(output)].alive)

(* The remainder of a remainder, and what its first piece is then. *)
LEMMA RemainderTail ==
  ASSUME NEW s \in Seq(PieceSet), s # <<>>, Remainder(s)
  PROVE  /\ Remainder(Tail(s))
         /\ Tail(s) = <<>> <=> Head(s).part \in {"whole", "end"}
         /\ Tail(s) # <<>> => <<Head(s).part, Head(Tail(s)).part>> \in NextPart
<1>1. /\ Len(s) \in Nat /\ Len(s) >= 1 /\ Head(s) = s[1]
      /\ Tail(s) \in Seq(PieceSet) /\ Len(Tail(s)) = Len(s) - 1
      /\ \A k \in 1 .. Len(s) - 1 : Tail(s)[k] = s[k + 1]
  BY SMT
<1>2. Tail(s) # <<>> <=> Len(s) - 1 >= 1
  BY <1>1, SMT
<1>3. ASSUME Tail(s) # <<>>
      PROVE  /\ Head(Tail(s)) = s[2]
             /\ <<s[1].part, s[2].part>> \in NextPart
             /\ Tail(s)[Len(Tail(s))] = s[Len(s)]
  <2>1. 1 \in 1 .. Len(s) - 1 /\ Len(s) - 1 \in 1 .. Len(s) - 1 /\ (Len(s) - 1) + 1 = Len(s)
    BY <1>1, <1>2, <1>3, SMT
  <2>2. Head(Tail(s)) = Tail(s)[1] /\ Tail(s)[1] = s[1 + 1] /\ 1 + 1 = 2
    BY <1>1, <1>3, <2>1, SMT
  <2>3. <<s[1].part, s[1 + 1].part>> \in NextPart
    BY <2>1 DEF Remainder
  <2>4. Tail(s)[Len(s) - 1] = s[(Len(s) - 1) + 1]
    BY <1>1, <2>1
  <2> QED
    BY <1>1, <2>1, <2>2, <2>3, <2>4
<1>4. ASSUME NEW k \in 1 .. Len(Tail(s)) - 1
      PROVE  <<Tail(s)[k].part, Tail(s)[k + 1].part>> \in NextPart
  <2>1. k \in 1 .. Len(s) - 1 /\ k + 1 \in 1 .. Len(s) - 1
    BY <1>1, SMT
  <2>2. <<s[k + 1].part, s[(k + 1) + 1].part>> \in NextPart
    BY <2>1 DEF Remainder
  <2> QED
    BY <1>1, <2>1, <2>2
<1>5. s[Len(s)].part \in {"whole", "end"}
  BY DEF Remainder
<1>6. Remainder(Tail(s))
  BY <1>3, <1>4, <1>5 DEF Remainder
<1>7. Tail(s) = <<>> => Head(s).part \in {"whole", "end"}
  <2>1. ASSUME Tail(s) = <<>> PROVE Len(s) = 1
    BY <1>1, <1>2, <2>1, SMT
  <2> QED
    BY <1>1, <1>5, <2>1
<1>8. ASSUME Tail(s) # <<>> PROVE Head(s).part \notin {"whole", "end"}
  BY <1>1, <1>3, <1>8 DEF NextPart
<1> QED
  BY <1>1, <1>3, <1>6, <1>7, <1>8

(* A response is all of one, and announces keep-alive if the request does. *)
LEMMA ResponseFrames ==
  ASSUME HttpTypeInv, cur \in DOMAIN wire, BeginResponse
  PROVE  /\ todo' # <<>> /\ Remainder(todo') /\ todo'[1].part \in {"whole", "head"}
         /\ \A k \in DOMAIN todo' : todo'[k].of = cur /\ (wire[cur].keep => todo'[k].alive)
<1>1. CASE todo' = Nonchunked
  <2>1. /\ todo' = <<Piece("whole", wire[cur].keep)>>
        /\ Len(todo') = 1 /\ DOMAIN todo' = 1 .. 1 /\ todo'[1] = Piece("whole", wire[cur].keep)
    BY <1>1, SMT DEF Nonchunked
  <2>2. todo' # <<>> /\ 1 .. Len(todo') - 1 = {} /\ \A k \in DOMAIN todo' : k = 1
    BY <2>1, SMT
  <2> QED
    BY <2>1, <2>2 DEF Remainder, Piece
<1>2. ASSUME NEW n \in 1 .. MaxPieces, todo' = Chunked(n)
      PROVE  /\ todo' # <<>> /\ Remainder(todo') /\ todo'[1].part = "head"
             /\ \A k \in DOMAIN todo' : todo'[k].of = cur /\ todo'[k].alive
  <2> DEFINE last == 2 + 3 * n
             part(j) == IF j = 1 THEN "head" ELSE IF j = last THEN "end"
                        ELSE ChunkParts[((j - 2) % 3) + 1]
  <2>1. n \in Nat /\ last \in Nat /\ last >= 5 /\ 1 \in 1 .. last /\ last \in 1 .. last
    BY SMT
  <2>2. todo' = [j \in 1 .. last |-> Piece(part(j), TRUE)]
    BY <1>2 DEF Chunked
  <2>3. part(1) = "head" /\ part(last) = "end"
    BY <2>1, SMT
  <2>4. \A j \in 1 .. last - 1 : <<part(j), part(j + 1)>> \in NextPart
    <3> TAKE j \in 1 .. last - 1
    <3>1. ChunkParts[1] = "size" /\ ChunkParts[2] = "data" /\ ChunkParts[3] = "crlf"
      BY SMT DEF ChunkParts
    <3>2. CASE j = 1
      <4>1. part(j) = "head" /\ part(j + 1) = ChunkParts[1]
        BY <2>1, <3>2, SMT
      <4> QED
        BY <3>1, <4>1 DEF NextPart
    <3>3. CASE j # 1
      <4> DEFINE c == ((j - 2) % 3) + 1
                 d == (((j + 1) - 2) % 3) + 1
      <4>1. part(j) = ChunkParts[c]
        BY <2>1, <3>3, SMT
      <4>2. part(j + 1) = IF j + 1 = last THEN "end" ELSE ChunkParts[d]
        BY <2>1, <3>3, SMT
      <4>3. \/ c = 1 /\ d = 2 /\ j + 1 # last
            \/ c = 2 /\ d = 3 /\ j + 1 # last
            \/ c = 3 /\ d = 1
        BY <2>1, <3>3, SMT
      <4> HIDE DEF part, c, d, last
      <4> QED
        BY <3>1, <4>1, <4>2, <4>3 DEF NextPart
    <3> QED
      BY <3>2, <3>3
  <2> HIDE DEF part
  <2>5. todo' \in Seq(PieceSet) /\ Len(todo') = last /\ DOMAIN todo' = 1 .. last
    <3>1. todo' \in Seq(PieceSet)
      BY ResponseType
    <3>2. DOMAIN todo' = 1 .. last
      BY <2>2
    <3> QED
      BY <2>1, <3>1, <3>2, LenProperties, SMT
  <2> HIDE DEF last
  <2>6. todo' # <<>>
    BY <2>1, <2>5, SMT
  <2>7. \A j \in 1 .. last : todo'[j].of = cur /\ todo'[j].part = part(j) /\ todo'[j].alive
    <3>1. \A q : /\ Piece(q, TRUE).of = cur /\ Piece(q, TRUE).part = q
                 /\ Piece(q, TRUE).alive = TRUE
      BY DEF Piece
    <3> TAKE j \in 1 .. last
    <3>2. todo'[j] = Piece(part(j), TRUE)
      BY <2>2
    <3>3. todo'[j].of = cur /\ todo'[j].part = part(j) /\ todo'[j].alive = TRUE
      BY <3>1, <3>2
    <3> QED
      BY <3>3, Zenon
  <2>8. \A j \in 1 .. last - 1 : <<todo'[j].part, todo'[j + 1].part>> \in NextPart
    <3> TAKE j \in 1 .. last - 1
    <3>1. j \in 1 .. last /\ j + 1 \in 1 .. last
      BY <2>1, SMT
    <3> QED
      BY <2>4, <2>7, <3>1
  <2> QED
    BY <2>1, <2>3, <2>5, <2>6, <2>7, <2>8 DEF Remainder
<1> QED
  BY <1>1, <1>2 DEF BeginResponse

(* One more piece leaves those before it what they are, whether or not it was
   written whole. *)
LEMMA OneMorePiece ==
  ASSUME output \in Seq(PieceSet), NEW p \in PieceSet, output' = Append(output, p),
         intact \in Nat, intact <= Len(output),
         intact' = intact \/ (intact = Len(output) /\ intact' = intact + 1),
         Framed, MayFollow(p)
  PROVE  /\ Framed' /\ output' # <<>> /\ output'[Len(output')] = p
         /\ \A k \in DOMAIN output' : (k \in DOMAIN output /\ output'[k] = output[k]) \/ output'[k] = p
         /\ Completed \subseteq Completed'
         /\ EndsAt(Len(output))' => p.of \in Completed'
         /\ p.part \in {"whole", "end"} => EndsAt(Len(output))'
         /\ intact' = intact /\ p.part = "head" => EndsAt(Len(output))'
<1>1. /\ Len(output) \in Nat /\ DOMAIN output = 1 .. Len(output)
      /\ output' \in Seq(PieceSet) /\ Len(output') = Len(output) + 1
      /\ DOMAIN output' = 1 .. Len(output) + 1 /\ output'[Len(output) + 1] = p
      /\ \A k \in 1 .. Len(output) : output'[k] = output[k]
  BY AppendProperties, LenProperties, SMT
<1>2. /\ \A k \in 1 .. Len(output) : k \in DOMAIN output' /\ (k > intact' <=> k > intact)
      /\ intact' = intact => Len(output) + 1 > intact'
  <2>1. \A n \in Nat : \A i, j \in Nat :
          i <= n /\ (j = i \/ (i = n /\ j = i + 1)) =>
            /\ \A k \in 1 .. n : k \in 1 .. n + 1 /\ (k > j <=> k > i)
            /\ j = i => n + 1 > j
    BY SMT
  <2>2. intact' \in Nat
    BY SMT
  <2> QED
    BY <1>1, <2>1, <2>2
<1>3. \A k \in 1 .. Len(output) : EndsAt(k)' <=> EndsAt(k)
  BY <1>1, <1>2 DEF EndsAt
<1>4. /\ Len(output') \in DOMAIN output' /\ output' # <<>> /\ output'[Len(output')] = p
      /\ \A k \in DOMAIN output' : k \in DOMAIN output \/ k = Len(output')
  <2>1. \A n \in Nat : /\ n + 1 \in 1 .. n + 1 /\ n + 1 # 0
                      /\ \A k \in 1 .. n + 1 : k \in 1 .. n \/ k = n + 1
    BY SMT
  <2>2. output' # <<>> <=> Len(output') # 0
    BY <1>1, EmptySeq
  <2> QED
    BY <1>1, <2>1, <2>2
<1>0. \A n \in Nat :
        /\ \A k \in 1 .. n - 1 : k \in 1 .. n /\ k + 1 \in 1 .. n
        /\ \A k \in 1 .. (n + 1) - 1 : k \in 1 .. n - 1 \/ (k = n /\ k \in 1 .. n /\ n # 0)
        /\ n = 0 => 1 = n + 1
        /\ n # 0 => 1 \in 1 .. n
  BY SMT
<1>b. output = <<>> <=> Len(output) = 0
  BY EmptySeq
<1>5. ASSUME NEW k \in 1 .. Len(output') - 1 PROVE Follows(k)'
  <2>1. CASE k \in 1 .. Len(output) - 1
    <3>1. k \in 1 .. Len(output) /\ k + 1 \in 1 .. Len(output)
      BY <1>0, <1>1, <2>1
    <3>2. output'[k] = output[k] /\ output'[k + 1] = output[k + 1]
      BY <1>1, <3>1
    <3> QED
      BY <1>3, <2>1, <3>1, <3>2 DEF Framed, Follows
  <2>2. CASE k = Len(output) /\ k \in 1 .. Len(output) /\ Len(output) # 0
    <3>1. k \in 1 .. Len(output) /\ output # <<>>
      BY <1>b, <2>2
    <3>2. output'[k] = output[Len(output)] /\ output'[k + 1] = p
      BY <1>1, <2>2, <3>1
    <3> QED
      BY <1>3, <2>2, <3>1, <3>2 DEF MayFollow, Follows
  <2>3. k \in 1 .. (Len(output) + 1) - 1
    BY <1>1, <1>5
  <2> QED
    BY <1>0, <1>1, <2>1, <2>2, <2>3
<1>6. output'[1].part \in {"whole", "head"}
  <2>1. CASE output = <<>>
    <3>1. 1 = Len(output) + 1
      BY <1>0, <1>1, <1>b, <2>1
    <3>2. output'[1] = p
      BY <1>1, <3>1
    <3> QED
      BY <2>1, <3>2 DEF MayFollow
  <2>2. CASE output # <<>>
    <3>1. 1 \in 1 .. Len(output)
      BY <1>0, <1>1, <1>b, <2>2
    <3> QED
      BY <1>1, <2>2, <3>1 DEF Framed
  <2> QED
    BY <2>1, <2>2
<1>7. Completed \subseteq Completed' /\ (EndsAt(Len(output))' => p.of \in Completed')
  <2>1. \A k \in DOMAIN output : EndsAt(k) => output[k].of \in Completed'
    BY <1>1, <1>2, <1>3 DEF Completed
  <2>2. EndsAt(Len(output))' => output'[Len(output')].of \in Completed'
    BY <1>4 DEF Completed
  <2> QED
    BY <1>4, <2>1, <2>2 DEF Completed
<1>9. /\ p.part \in {"whole", "end"} => EndsAt(Len(output))'
      /\ intact' = intact /\ p.part = "head" => EndsAt(Len(output))'
  BY <1>1, <1>2, <1>4 DEF EndsAt
<1> QED
  BY <1>1, <1>4, <1>5, <1>6, <1>7, <1>9 DEF Framed

(* A new response may follow what was written before. *)
LEMMA FrameAnswer ==
  ASSUME CoreInv, FrameInv, OrderInv', Answer
  PROVE  FrameInv'
<1>0. /\ served \in Seq(ServedSet) /\ output \in Seq(PieceSet) /\ wire \in Wires
      /\ cur \in DOMAIN wire /\ HttpTypeInv
  BY DEF CoreInv, HttpTypeInv, CurInv, InRequest, Answer
<1>1. /\ pc = "handle" /\ pc' = "write" /\ BeginResponse
      /\ UNCHANGED <<wire, cur, output, intact>>
      /\ served' = Append(served, [of |-> cur, body |-> body, failed |-> failed])
  BY DEF Answer, streamVars
<1>2. /\ Len(served) \in Nat /\ DOMAIN served = 1 .. Len(served)
      /\ Len(served') = Len(served) + 1 /\ DOMAIN served' = 1 .. Len(served')
      /\ Len(served') \in DOMAIN served'
      /\ served'[Len(served')].of = cur
      /\ \A j \in DOMAIN served :
           j \in DOMAIN served' /\ served'[j] = served[j] /\ j < Len(served')
  <2> DEFINE new == [of |-> cur, body |-> body, failed |-> failed]
  <2>0. new.of = cur
    OBVIOUS
  <2> HIDE DEF new
  <2>1. /\ Len(served) \in Nat /\ DOMAIN served = 1 .. Len(served)
        /\ Len(served') = Len(served) + 1 /\ DOMAIN served' = 1 .. Len(served) + 1
        /\ served'[Len(served) + 1] = new
        /\ \A j \in 1 .. Len(served) : served'[j] = served[j]
    <3>1. served' = Append(served, new)
      BY <1>1 DEF new
    <3> QED
      BY <1>0, <3>1, SMT
  <2>2. /\ Len(served) + 1 \in 1 .. Len(served) + 1
        /\ \A j \in 1 .. Len(served) : j \in 1 .. Len(served) + 1 /\ j < Len(served) + 1
    BY <2>1, SMT
  <2> QED
    BY <2>0, <2>1, <2>2
<1>3. served' # <<>> /\ todo = <<>>
  <2>1. Len(served') # 0
    BY <1>2, SMT
  <2> QED
    BY <1>1, <2>1, EmptySeq DEF FrameInv
<1>4. /\ \A k : EndsAt(k)' <=> EndsAt(k)
      /\ \A k : Follows(k)' <=> Follows(k)
      /\ Completed' = Completed
  BY <1>1 DEF EndsAt, Follows, Completed
<1>5. \A j \in DOMAIN served : EndedBefore(j) => EndedBefore(j)'
  <2> TAKE j \in DOMAIN served
  <2>1. \A i \in 1 .. j - 1 : i \in DOMAIN served
    BY <1>2, SMT
  <2> QED
    BY <1>2, <1>4, <2>1 DEF EndedBefore
<1>6. \A k \in DOMAIN output : output[k].of < cur
  <2> TAKE k \in DOMAIN output
  <2>1. PICK j \in DOMAIN served : served[j].of = output[k].of
    BY DEF FrameInv
  <2>2. served'[j].of < served'[Len(served')].of
    BY <1>1, <1>2, <2>1 DEF OrderInv, ServedInOrder, Clean
  <2> QED
    BY <1>2, <2>1, <2>2
<1>7. /\ todo' # <<>> /\ Remainder(todo') /\ todo' \in Seq(PieceSet)
      /\ todo'[1].part \in {"whole", "head"}
      /\ \A k \in DOMAIN todo' : todo'[k].of = cur /\ (wire[cur].keep => todo'[k].alive)
  BY <1>0, <1>1, ResponseFrames, ResponseType
<1>8. Head(todo') = todo'[1] /\ 1 \in DOMAIN todo'
  BY <1>7, SMT
<1>9. MayFollow(Head(todo))'
  <2>1. CASE output = <<>>
    BY <1>1, <1>7, <1>8, <2>1 DEF MayFollow
  <2>2. CASE output # <<>>
    <3>1. Len(output) \in DOMAIN output
      BY <1>0, <2>2, SMT
    <3>2. /\ output[Len(output)].of \in DOMAIN wire /\ DOMAIN wire = 1 .. Len(wire)
          /\ Len(wire) \in Nat
      <4>1. output[Len(output)] \in PieceSet
        BY <1>0, <3>1, SMT
      <4> QED
        BY <1>0, <4>1, WireFacts DEF PieceSet
    <3>3. output[Len(output)].of # todo'[1].of
      <4>1. \A n \in 1 .. Len(wire) : ~(n < n)
        BY <3>2, SMT
      <4> QED
        BY <1>6, <1>7, <1>8, <3>1, <3>2, <4>1
    <3>4. output[Len(output)].alive /\ EndsAt(Len(output))
      BY <1>1, <1>3, <2>2 DEF FrameInv, InRequest
    <3>5. EndsAt(Len(output))'
      BY <1>1, <3>4 DEF EndsAt
    <3> QED
      BY <1>1, <1>7, <1>8, <2>2, <3>3, <3>4, <3>5, Zenon DEF MayFollow
  <2> QED
    BY <2>1, <2>2
<1>10. EndedBefore(Len(served))'
  <2>1. \A i \in 1 .. Len(served') - 1 : i \in DOMAIN served /\ i \in 1 .. (Len(served) + 1) - 1
    BY <1>2, SMT
  <2>2. EndedBefore(Len(served) + 1)
    BY <1>3 DEF FrameInv
  <2> QED
    BY <1>2, <1>4, <2>1, <2>2 DEF EndedBefore
<1>11. \A k \in DOMAIN output' : \E j \in DOMAIN served' :
        served'[j].of = output'[k].of /\ EndedBefore(j)'
  BY <1>1, <1>2, <1>5 DEF FrameInv
<1>12. Framed'
  BY <1>1, <1>4 DEF FrameInv, Framed
<1>13. Remainder(todo)'
  BY <1>7 DEF Remainder
<1> QED
  BY <1>1, <1>2, <1>3, <1>7, <1>9, <1>10, <1>11, <1>12, <1>13 DEF FrameInv, InRequest

(* Whatever becomes of the next piece of a response, it is the one that may
   follow; what is left after it may follow then, or the response has ended. *)
LEMMA FrameWrite ==
  ASSUME CoreInv, FrameInv, WriteResponse, UNCHANGED served
  PROVE  FrameInv'
<1>0. /\ served \in Seq(ServedSet) /\ output \in Seq(PieceSet) /\ todo \in Seq(PieceSet)
      /\ intact \in Nat /\ intact <= Len(output)
      /\ todo # <<>> /\ pc = "write" /\ UNCHANGED <<wire, pc, cur, served>>
      /\ output' = Append(output, Head(todo))
  <2>1. /\ served \in Seq(ServedSet) /\ output \in Seq(PieceSet) /\ todo \in Seq(PieceSet)
        /\ intact \in 0 .. Len(output)
    BY DEF CoreInv, HttpTypeInv
  <2>2. intact \in Nat /\ intact <= Len(output)
    BY <2>1, SMT
  <2> QED
    BY <2>1, <2>2
    DEF WriteResponse, WritePiece, WriteFails, WriteMiscounts, WriteBreaksOff, streamVars,
        readerVars
<1>1. /\ \/ todo' = Tail(todo)
         \/ todo' = <<>> /\ intact' = intact /\ Head(todo).part \in {"whole", "head"}
      /\ intact' = intact \/ (intact = Len(output) /\ intact' = intact + 1)
  BY DEF WriteResponse, WritePiece, WriteFails, WriteMiscounts, WriteBreaksOff
<1>2. /\ Head(todo) \in PieceSet /\ Head(todo) = todo[1] /\ 1 \in DOMAIN todo
      /\ \A k \in DOMAIN Tail(todo) : k + 1 \in DOMAIN todo /\ Tail(todo)[k] = todo[k + 1]
      /\ Tail(todo) \in Seq(PieceSet)
  BY <1>0, SMT
<1>3. /\ Head(todo).of = cur /\ (wire[cur].keep => Head(todo).alive)
      /\ MayFollow(Head(todo)) /\ Framed /\ Remainder(todo)
  BY <1>0, <1>2 DEF FrameInv
<1>4. /\ Framed' /\ output' # <<>> /\ output'[Len(output')] = Head(todo)
      /\ \A k \in DOMAIN output' :
           (k \in DOMAIN output /\ output'[k] = output[k]) \/ output'[k] = Head(todo)
      /\ Completed \subseteq Completed'
      /\ EndsAt(Len(output))' => Head(todo).of \in Completed'
      /\ Head(todo).part \in {"whole", "end"} => EndsAt(Len(output))'
      /\ intact' = intact /\ Head(todo).part = "head" => EndsAt(Len(output))'
  BY <1>0, <1>1, <1>2, <1>3, OneMorePiece
<1>5. \A j : EndedBefore(j) => EndedBefore(j)'
  BY <1>0, <1>4 DEF EndedBefore
<1>6. /\ Len(served) \in Nat /\ Len(served) \in DOMAIN served /\ served[Len(served)].of = cur
      /\ EndedBefore(Len(served))
  <2>1. served # <<>> /\ served[Len(served)].of = cur /\ EndedBefore(Len(served))
    BY <1>0 DEF FrameInv
  <2> QED
    BY <1>0, <2>1, SMT
<1>7. \A k \in DOMAIN output' : \E j \in DOMAIN served' :
        served'[j].of = output'[k].of /\ EndedBefore(j)'
  BY <1>0, <1>3, <1>4, <1>5, <1>6 DEF FrameInv
<1>8. /\ Remainder(Tail(todo))
      /\ Tail(todo) = <<>> <=> Head(todo).part \in {"whole", "end"}
      /\ Tail(todo) # <<>> => <<Head(todo).part, Head(Tail(todo)).part>> \in NextPart
  BY <1>0, <1>3, RemainderTail
<1>9. ASSUME todo' # <<>>
      PROVE  /\ MayFollow(Head(todo))'
             /\ \A k \in DOMAIN todo' : todo'[k].of = cur /\ (wire[cur].keep => todo'[k].alive)
  <2>1. todo' = Tail(todo)
    BY <1>1, <1>9
  <2>2. \A k \in DOMAIN todo' : todo'[k].of = cur /\ (wire[cur].keep => todo'[k].alive)
    BY <1>2, <2>1 DEF FrameInv
  <2>3. Head(todo').of = cur
    <3>1. 1 \in DOMAIN todo' /\ Head(todo') = todo'[1]
      BY <1>2, <1>9, <2>1, SMT
    <3> QED
      BY <2>2, <3>1
  <2> QED
    BY <1>3, <1>4, <1>8, <1>9, <2>1, <2>2, <2>3 DEF MayFollow
<1>10. ASSUME todo' = <<>>
       PROVE  EndsAt(Len(output))' /\ EndedBefore(Len(served) + 1)'
  <2>1. EndsAt(Len(output))'
    BY <1>1, <1>4, <1>8, <1>10
  <2>2. \A i \in 1 .. (Len(served) + 1) - 1 : i \in 1 .. Len(served) - 1 \/ i = Len(served)
    <3>1. \A n \in Nat : \A i \in 1 .. (n + 1) - 1 : i \in 1 .. n - 1 \/ i = n
      BY SMT
    <3> QED
      BY <1>6, <3>1
  <2>3. \A i \in 1 .. Len(served) - 1 : served[i].of \in Completed'
    BY <1>4, <1>6 DEF EndedBefore
  <2>4. cur \in Completed'
    BY <1>3, <1>4, <2>1
  <2> QED
    BY <1>0, <1>6, <2>1, <2>2, <2>3, <2>4 DEF EndedBefore
<1>11. Remainder(todo')
  <2>1. Remainder(<<>>)
    <3>1. 1 .. Len(<<>>) - 1 = {}
      BY SMT
    <3> QED
      BY <3>1 DEF Remainder
  <2> QED
    BY <1>1, <1>8, <2>1
<1>12. \A k \in DOMAIN todo' : todo'[k].of = cur /\ (wire[cur].keep => todo'[k].alive)
  <2>1. DOMAIN <<>> = {}
    BY SMT
  <2> QED
    BY <1>9, <2>1
<1>13. Remainder(todo)'
  BY <1>11 DEF Remainder
<1> QED
  BY <1>0, <1>3, <1>4, <1>5, <1>6, <1>7, <1>9, <1>10, <1>12, <1>13 DEF FrameInv, InRequest

(* The reader does not write, and reads the next request of a connection that
   was announced to be kept. *)
LEMMA FrameQuiet ==
  ASSUME FrameInv, UNCHANGED <<wire, output, intact, todo, served>>,
         \/ UNCHANGED <<pc, cur>>
         \/ todo = <<>> /\ pc' \in {"closing", "closed"}
         \/ todo = <<>> /\ pc' \in InRequest \cup {"head"}
            /\ (pc = "write" => wire[cur].keep) /\ pc \in InRequest \cup {"head", "write"}
  PROVE  FrameInv'
<1>1. /\ Framed' /\ \A j : EndedBefore(j)' <=> EndedBefore(j)
      /\ EndsAt(Len(output))' <=> EndsAt(Len(output))
      /\ Remainder(todo)'
  BY DEF FrameInv, Framed, Follows, EndedBefore, Completed, EndsAt, Remainder
<1>2. MayFollow(Head(todo))' <=> MayFollow(Head(todo))
  BY <1>1 DEF MayFollow
<1>3. CASE UNCHANGED <<pc, cur>>
  BY <1>1, <1>2, <1>3 DEF FrameInv
<1>4. DOMAIN <<>> = {}
  BY SMT
<1>5. CASE todo = <<>> /\ pc' \in {"closing", "closed"}
  BY <1>1, <1>4, <1>5 DEF FrameInv, InRequest
<1>6. CASE todo = <<>> /\ pc' \in InRequest \cup {"head"}
           /\ (pc = "write" => wire[cur].keep) /\ pc \in InRequest \cup {"head", "write"}
  <2>1. output # <<>> => output[Len(output)].alive
    BY <1>6 DEF FrameInv
  <2> QED
    BY <1>1, <1>4, <1>6, <2>1 DEF FrameInv, InRequest
<1> QED
  BY <1>3, <1>5, <1>6

(* Every step keeps the output in frames. *)
LEMMA FrameStep ==
  CoreInv /\ (Clean => FrameInv) /\ (Clean => OrderInv)' /\ [HttpNext]_connVars
    => (Clean => FrameInv)'
<1> SUFFICES ASSUME CoreInv, Clean => FrameInv, (Clean => OrderInv)', [HttpNext]_connVars,
                    Clean'
             PROVE  FrameInv'
  OBVIOUS
<1>a. FrameInv /\ OrderInv' /\ ~ReadStale /\ ~Misread
  BY CleanSteps
<1>1. CASE Client \/ UNCHANGED connVars
  <2>1. UNCHANGED <<wire, pc, cur, output, intact, todo, served>>
    BY <1>1
    DEF Client, Arrives, Closes, Resets, connVars, streamVars, readerVars, writerVars
  <2> QED
    BY <1>a, <2>1, FrameQuiet
<1>2. CASE ReadRequest /\ UNCHANGED <<writerVars, served>>
  <2>1. UNCHANGED <<wire, output, intact, todo, served>>
    BY <1>a, <1>2
    DEF ReadRequest, ReadHead, HeadTooLarge, HeadCutShort, HeadRejected, BeginLength,
        BeginChunked, BeginUnframed, Parsed, ReadExact, ExactCutShort, ReadMore,
        ReadMoreAgain, ChunkSize, ChunkData, ChunkEnd, Recv, streamVars, writerVars
  <2>2. pc \in (InRequest \cup {"head"}) /\ pc' \in (InRequest \cup {"head", "closing"})
    BY <1>a, <1>2
    DEF ReadRequest, ReadHead, HeadTooLarge, HeadCutShort, HeadRejected, BeginLength,
        BeginChunked, BeginUnframed, Parsed, ReadExact, ExactCutShort, ReadMore,
        ReadMoreAgain, ChunkSize, ChunkData, ChunkEnd, ChunkError, Deliver, Refuse, Decoding,
        InRequest, readerVars
  <2>3. todo = <<>>
    BY <1>a, <2>2 DEF FrameInv, InRequest
  <2> QED
    BY <1>a, <2>1, <2>2, <2>3, FrameQuiet DEF InRequest
<1>3. CASE Answer
  BY <1>a, <1>3, FrameAnswer
<1>4. CASE WriteResponse /\ UNCHANGED served
  BY <1>a, <1>4, FrameWrite
<1>5. CASE NextRequest \/ CloseSocket
  <2>1. UNCHANGED <<wire, output, intact, todo, served>> /\ todo = <<>>
    BY <1>a, <1>5 DEF NextRequest, CloseSocket, FrameInv, streamVars, writerVars
  <2>2. \/ pc' \in {"closing", "closed"}
        \/ pc' = "head" /\ pc = "write" /\ wire[cur].keep
    BY <1>5 DEF NextRequest, CloseSocket, NewReader, Refuse
  <2> QED
    BY <1>a, <2>1, <2>2, FrameQuiet
<1> QED
  BY <1>a, <1>1, <1>2, <1>3, <1>4, <1>5 DEF HttpNext, Server

(* A new connection has no output. *)
LEMMA FrameInit == HttpInit => FrameInv
<1> SUFFICES ASSUME HttpInit PROVE FrameInv
  OBVIOUS
<1>1. /\ DOMAIN <<>> = {} /\ Len(<<>>) = 0
      /\ 1 .. 0 - 1 = {} /\ 1 .. (0 + 1) - 1 = {}
  BY SMT
<1>2. served = <<>> /\ todo = <<>> /\ output = <<>> /\ pc = "head"
  BY DEF HttpInit, ReaderInit, WriterInit
<1>3. Framed /\ Remainder(todo) /\ EndedBefore(0) /\ EndedBefore(0 + 1)
  BY <1>1, <1>2 DEF Framed, Remainder, EndedBefore
<1> QED
  BY <1>1, <1>2, <1>3 DEF FrameInv

(* The order of requests and the frames of responses, together. *)
LEMMA FrameHolds == HttpSpec => [](CoreInv /\ (Clean => OrderInv /\ FrameInv))
<1>1. CoreInv /\ (Clean => OrderInv /\ FrameInv) /\ [HttpNext]_connVars
        => (Clean => OrderInv /\ FrameInv)'
  BY OrderStep, FrameStep
<1> QED
  BY <1>1, FrameInit, OrderInit, CoreInit, CoreStep, PTL DEF HttpSpec

(* What is written are whole responses in the order of the requests, whichever
   writes fail; the client can read them up to the first that did, and a head
   is given up on only after that: see OutputInFrames. *)
THEOREM FramesWritten == HttpSpec => []OutputInFrames
<1>1. CoreInv /\ (Clean => OrderInv /\ FrameInv) => OutputInFrames
  <2> SUFFICES ASSUME FrameInv PROVE OutputInFrames
    BY DEF OutputInFrames
  <2>1. pc # "write" /\ output # <<>> => EndsAt(Len(output))
    BY DEF FrameInv
  <2> QED
    BY <2>1 DEF FrameInv, Framed, OutputInFrames, EndedBefore
<1> QED
  BY <1>1, FrameHolds, PTL

-----------------------------------------------------------------------------
(* Well-behaved clients. *)

(* Where the request after the n-th begins. *)
Boundary(n) == IF n = 0 THEN 0 ELSE wire[n].to

(* How much a client sends that has n responses, when it waits for them. *)
Allowance(n) ==
  IF n = 0 THEN wire[1].to
  ELSE IF n = Len(wire) \/ ~wire[n].keep THEN wire[n].to ELSE wire[n + 1].to

(* The responses that are written. *)
Replies == Len(served) - (IF pc = "write" /\ todo # <<>> THEN 1 ELSE 0)

(* What a well-behaved client has sent, and its server has taken and written. *)
SentInv ==
  /\ ~gone /\ Clean
  /\ intact = Len(output)
  /\ Answered = 1 .. Replies
  /\ sent <= Allowance(Replies)
  /\ fin => AtBoundary

(* The handler has got the first requests, each with its own body. *)
OwnBodies == \A j \in DOMAIN served : served[j].of = j /\ served[j].body = BodyBytes(wire[j])

(* The requests reach the handler one by one, from their first byte to their
   last, and a connection that closes has been left or was not to be kept. *)
TurnInv ==
  /\ Len(served) <= Len(wire)
  /\ OwnBodies
  /\ pc \in InRequest \cup {"head"} =>
       start = Boundary(Len(served)) /\ (served # <<>> => wire[Len(served)].keep)
  /\ pc \in InRequest => cur = Len(served) + 1
  /\ pc = "handle" => taken = wire[cur].to /\ body = BodyBytes(wire[cur])
  /\ pc = "write" => cur = Len(served) /\ served # <<>> /\ taken = wire[cur].to
  /\ pc = "closing" => fin \/ (served # <<>> /\ ~wire[Len(served)].keep)

PoliteInv == SentInv /\ TurnInv

(* Nothing that is served changes. *)
LEMMA BodiesKept ==
  ASSUME OwnBodies, UNCHANGED <<wire, served>>
  PROVE  OwnBodies'
<1>1. ASSUME NEW j \in DOMAIN served' PROVE (served[j].of = j /\ served[j].body = BodyBytes(wire[j]))'
  <2>1. served[j].of = j /\ served[j].body = BodyBytes(wire[j])
    BY <1>1 DEF OwnBodies
  <2>2. BodyBytes(wire[j])' = BodyBytes(wire[j])
    BY DEF BodyBytes, ChunkBytes
  <2> QED BY <2>1, <2>2
<1> QED BY <1>1 DEF OwnBodies

(* The n-th boundary lies after n requests, and the next one begins there. *)
LEMMA Boundaries ==
  ASSUME wire \in Wires, NEW n \in 0 .. Len(wire)
  PROVE  /\ Boundary(n) \in Nat
         /\ \A i \in DOMAIN wire : i <= n => wire[i].to <= Boundary(n)
         /\ \A i \in DOMAIN wire : i > n + 1 => wire[n + 1].to <= wire[i].from
         /\ n < Len(wire) => n + 1 \in DOMAIN wire /\ wire[n + 1].from = Boundary(n)
<1>1. /\ Len(wire) \in Nat /\ DOMAIN wire = 1 .. Len(wire)
      /\ \A i \in 1 .. Len(wire) : wire[i].from \in Nat /\ wire[i].to \in Nat
      /\ \A i \in 1 .. Len(wire) : wire[i].from <= wire[i].to
      /\ \A i, j \in 1 .. Len(wire) : i < j => wire[i].to <= wire[j].from
  <2>1. /\ Len(wire) \in Nat /\ DOMAIN wire = 1 .. Len(wire)
        /\ \A i \in DOMAIN wire :
             /\ wire[i].from \in Nat /\ wire[i].to \in Nat /\ wire[i].head \in Nat
             /\ wire[i].from + 4 < wire[i].head /\ wire[i].head <= wire[i].to
        /\ \A i, j \in DOMAIN wire : i < j => wire[i].to <= wire[j].from
    BY WireFacts, SMT
  <2>2. \A a, b, c \in Nat : a + 4 < b /\ b <= c => a <= c
    BY SMT
  <2> QED
    BY <2>1, <2>2
<1>2. wire[1].from = 0 /\ \A i \in 1 .. Len(wire) : i > 1 => wire[i].from = wire[i - 1].to
  BY <1>1, WiresAssumption
<1>3. n = 0 \/ n \in 1 .. Len(wire)
  BY <1>1, SMT
<1>4. Boundary(n) \in Nat
  BY <1>1, <1>3, SMT DEF Boundary
<1>5. \A i \in 1 .. Len(wire) : i <= n => wire[i].to <= Boundary(n)
  <2> TAKE i \in 1 .. Len(wire)
  <2> HAVE i <= n
  <2>1. n \in 1 .. Len(wire) /\ n # 0 /\ (i = n \/ i < n)
    BY <1>1, SMT
  <2>2. /\ wire[i].to \in Nat /\ wire[n].to \in Nat /\ wire[n].from \in Nat
        /\ wire[n].from <= wire[n].to /\ i < n => wire[i].to <= wire[n].from
    BY <1>1, <2>1
  <2>3. \A a, b, c \in Nat : (a <= b /\ b <= c => a <= c) /\ a <= a
    BY SMT
  <2> QED
    BY <1>1, <2>1, <2>2, <2>3 DEF Boundary
<1>6. \A i \in 1 .. Len(wire) : i > n + 1 => wire[n + 1].to <= wire[i].from
  <2> TAKE i \in 1 .. Len(wire)
  <2> HAVE i > n + 1
  <2>1. n + 1 \in 1 .. Len(wire) /\ n + 1 < i
    BY <1>1, SMT
  <2> QED
    BY <1>1, <2>1
<1>7. n < Len(wire) => n + 1 \in 1 .. Len(wire) /\ wire[n + 1].from = Boundary(n)
  <2>1. CASE n = 0
    BY <1>1, <1>2, <2>1, SMT DEF Boundary
  <2>2. CASE n # 0 /\ n < Len(wire)
    <3>1. n + 1 \in 1 .. Len(wire) /\ n + 1 > 1 /\ (n + 1) - 1 = n
      BY <1>1, <2>2, SMT
    <3> QED
      BY <1>2, <2>2, <3>1 DEF Boundary
  <2> QED
    BY <2>1, <2>2
<1> QED
  BY <1>1, <1>4, <1>5, <1>6, <1>7

(* While a request is read, what has been sent is part of that request, or all
   of it when the client has closed. *)
LEMMA ReadingFacts ==
  ASSUME CoreInv, FrameInv, PoliteInv, pc \in InRequest \cup {"head"},
         NEW n, n = Len(served)
  PROVE  /\ n \in Nat /\ n <= Len(wire) /\ Replies = n
         /\ start \in Nat /\ taken \in Nat /\ sent \in Nat /\ start <= taken /\ taken <= sent
         /\ \A i \in DOMAIN wire : wire[i].from = start => i = n + 1
         /\ n = Len(wire) => sent = start
         /\ n < Len(wire) => /\ n + 1 \in DOMAIN wire /\ wire[n + 1].from = start
                             /\ sent <= wire[n + 1].to
         /\ fin => sent = start \/ (n < Len(wire) /\ sent = wire[n + 1].to)
<1>1. /\ n \in Nat /\ Len(wire) \in Nat \ {0} /\ n <= Len(wire) /\ n \in 0 .. Len(wire)
      /\ start \in Nat /\ taken \in Nat /\ sent \in Nat /\ start <= taken /\ taken <= sent
      /\ wire \in Wires /\ (n = 0 <=> served = <<>>)
  <2>1. served \in Seq(ServedSet) /\ Len(served) <= Len(wire)
    BY DEF CoreInv, HttpTypeInv, PoliteInv, TurnInv
  <2>2. n \in Nat /\ (n = 0 <=> served = <<>>)
    BY <2>1, EmptySeq, LenProperties, SMT
  <2>3. /\ start \in Nat /\ taken \in Nat /\ sent \in Nat /\ start <= taken /\ taken <= sent
        /\ Len(wire) \in Nat \ {0} /\ wire \in Wires
    BY TypeFacts DEF CoreInv, HttpTypeInv
  <2>4. n \in 0 .. Len(wire)
    BY <2>1, <2>2, <2>3, SMT
  <2> QED
    BY <2>1, <2>2, <2>3, <2>4
<1>2. /\ Replies = n /\ start = Boundary(n) /\ (n # 0 => wire[n].keep)
      /\ sent <= Allowance(n) /\ (fin => AtBoundary)
  <2>1. Replies = n
    <3>1. n - 0 = n
      BY <1>1, SMT
    <3> QED
      BY <3>1 DEF Replies, InRequest
  <2> QED
    BY <1>1, <2>1 DEF PoliteInv, SentInv, TurnInv
<1>3. /\ \A i \in DOMAIN wire : i <= n => wire[i].to <= start
      /\ \A i \in DOMAIN wire : i > n + 1 => wire[n + 1].to <= wire[i].from
      /\ n < Len(wire) => n + 1 \in DOMAIN wire /\ wire[n + 1].from = start
  BY <1>1, <1>2, Boundaries
<1>4. /\ DOMAIN wire = 1 .. Len(wire)
      /\ \A i \in DOMAIN wire :
           wire[i].from \in Nat /\ wire[i].to \in Nat /\ wire[i].from < wire[i].to
  <2>1. \A a, b, c \in Nat : a + 4 < b /\ b <= c => a < c
    BY SMT
  <2> QED
    BY <1>1, <2>1, WireFacts
<1>5. \A i \in DOMAIN wire : wire[i].from = start => i = n + 1
  <2> TAKE i \in DOMAIN wire
  <2> HAVE wire[i].from = start
  <2>1. ~(i <= n)
    <3>1. \A a, b, c \in Nat : a < b => ~(b <= a)
      BY SMT
    <3> QED
      BY <1>1, <1>3, <1>4, <3>1
  <2>2. ~(i > n + 1)
    <3>1. i > n + 1 => n < Len(wire)
      BY <1>1, <1>4, SMT
    <3>2. \A a, b \in Nat : a < b => ~(b <= a)
      BY SMT
    <3> QED
      BY <1>1, <1>3, <1>4, <3>1, <3>2
  <2> QED
    BY <1>1, <1>4, <2>1, <2>2, SMT
<1>6. n = Len(wire) => sent = start
  <2> HAVE n = Len(wire)
  <2>1. Allowance(n) = wire[n].to /\ Boundary(n) = wire[n].to
    BY <1>1 DEF Allowance, Boundary
  <2> QED
    BY <1>1, <1>2, <2>1, SMT
<1>7. n < Len(wire) => sent <= wire[n + 1].to
  <2> HAVE n < Len(wire)
  <2>1. n # Len(wire) /\ 0 + 1 = 1
    BY <1>1, SMT
  <2>2. Allowance(n) = wire[n + 1].to
    BY <1>2, <2>1 DEF Allowance
  <2> QED
    BY <1>2, <2>2
<1>8. fin => sent = start \/ (n < Len(wire) /\ sent = wire[n + 1].to)
  <2> HAVE fin
  <2>1. CASE sent = 0
    BY <1>1, <2>1, SMT
  <2>2. ASSUME NEW i \in DOMAIN wire, sent = wire[i].to
        PROVE  sent = start \/ (n < Len(wire) /\ sent = wire[n + 1].to)
    <3>1. CASE i <= n
      <4>1. sent <= start
        BY <1>3, <2>2, <3>1
      <4> QED
        BY <1>1, <4>1, SMT
    <3>2. CASE i = n + 1
      BY <1>1, <1>4, <2>2, <3>2, SMT
    <3>3. CASE i > n + 1
      <4>1. n < Len(wire)
        BY <1>1, <1>4, <3>3, SMT
      <4>2. /\ wire[n + 1].to <= wire[i].from /\ wire[i].from < wire[i].to
            /\ wire[i].to <= wire[n + 1].to
            /\ wire[n + 1].to \in Nat /\ wire[i].from \in Nat /\ wire[i].to \in Nat
        BY <1>3, <1>4, <1>7, <2>2, <3>3, <4>1
      <4>3. \A a, b, c \in Nat : ~(a <= b /\ b < c /\ c <= a)
        BY SMT
      <4> QED
        BY <4>2, <4>3
    <3> QED
      BY <1>1, <1>4, <3>1, <3>2, <3>3, SMT
  <2> QED
    BY <1>2, <2>1, <2>2 DEF AtBoundary
<1> QED
  BY <1>1, <1>2, <1>3, <1>5, <1>6, <1>7, <1>8

(* The chunks of a body lie within the request, so that the body is finite. *)
LEMMA BodyFinite ==
  ASSUME NEW r \in Request, LaidOut(r)
  PROVE  IsFiniteSet(BodyBytes(r))
<1>1. r.to \in Nat /\ r.head \in Nat
  BY DEF Request
<1>2. CASE r.framing # "chunked"
  <2>1. BodyBytes(r) = r.head + 1 .. r.to
    BY <1>2 DEF BodyBytes
  <2>2. r.head + 1 \in Int /\ r.to \in Int
    BY <1>1, SMT
  <2> QED
    BY <2>1, <2>2, FS_Interval
<1>3. CASE r.framing = "chunked"
  <2>1. /\ Len(r.sizes) \in Nat /\ DOMAIN r.sizes = 1 .. Len(r.sizes)
        /\ \A k \in 1 .. Len(r.sizes) + 1 : r.at[k] \in Nat
        /\ \A k \in 1 .. Len(r.sizes) : r.sizes[k] \in Nat \ {0}
        /\ \A j, k \in 1 .. Len(r.sizes) + 1 : j < k => r.at[j] + 3 + r.sizes[j] + 2 <= r.at[k]
        /\ r.to = r.at[Len(r.sizes) + 1] + 3 + 2
    BY <1>3, ChunkFacts DEF LaidOut, LastChunk, LineLen, CrlfLen
  <2>2. \A k \in DOMAIN r.sizes : ChunkBytes(r, k) \subseteq 1 .. r.to
    <3> TAKE k \in DOMAIN r.sizes
    <3>1. /\ k \in 1 .. Len(r.sizes) + 1 /\ Len(r.sizes) + 1 \in 1 .. Len(r.sizes) + 1
          /\ k < Len(r.sizes) + 1
      BY <2>1, SMT
    <3>2. /\ r.at[k] \in Nat /\ r.sizes[k] \in Nat /\ r.at[Len(r.sizes) + 1] \in Nat
          /\ r.at[k] + 3 + r.sizes[k] + 2 <= r.at[Len(r.sizes) + 1]
      BY <2>1, <3>1
    <3>3. \A a, m, b \in Nat : a + 3 + m + 2 <= b => a + 3 + 1 .. a + 3 + m \subseteq 1 .. b + 3 + 2
      BY SMT
    <3> QED
      BY <2>1, <3>2, <3>3 DEF ChunkBytes, LineLen
  <2>3. BodyBytes(r) \subseteq 1 .. r.to
    BY <1>3, <2>2 DEF BodyBytes
  <2>4. IsFiniteSet(1 .. r.to)
    BY <1>1, FS_Interval, SMT
  <2> QED
    BY <2>3, <2>4, FS_Subset
<1> QED
  BY <1>2, <1>3

(* A request within the limits is accepted. *)
LEMMA LimitsAccepted ==
  ASSUME wire \in Wires, NEW i \in DOMAIN wire, WithinLimits(wire[i])
  PROVE  Acceptable(wire[i])
<1>1. /\ wire[i].head \in Nat /\ wire[i].to \in Nat /\ wire[i].head <= wire[i].to
      /\ wire[i].valid /\ Cardinality(BodyBytes(wire[i])) <= MaxBody
  BY WireFacts DEF WithinLimits
<1>2. ASSUME wire[i].framing = "length" PROVE wire[i].to - wire[i].head <= MaxBody
  <2>1. BodyBytes(wire[i]) = wire[i].head + 1 .. wire[i].to
    BY <1>2 DEF BodyBytes
  <2> QED
    BY <1>1, <2>1, IntervalSize
<1> QED
  BY <1>1, <1>2 DEF Acceptable

(* What the reader leaves as it was. *)
LEMMA SentKept ==
  ASSUME SentInv, UNCHANGED <<wire, sent, fin, gone, output, intact>>, Replies' = Replies,
         pc' # "foul"
  PROVE  SentInv'
BY DEF SentInv, Clean, Answered, AtBoundary, Allowance

(* The head of a request within the limits is found, before max_header_bytes
   is exceeded or the client closes, and it is accepted. *)
LEMMA PoliteHead ==
  ASSUME WellBehaved, CoreInv, FrameInv, PoliteInv, pc = "head"
  PROVE  /\ ~HeadTooLarge /\ ~HeadRejected
         /\ HeadCutShort => fin
<1> DEFINE n == Len(served)
<1>1. /\ n \in Nat /\ n <= Len(wire) /\ wire \in Wires /\ Len(wire) \in Nat
      /\ start \in Nat /\ taken \in Nat /\ sent \in Nat /\ start <= taken /\ taken <= sent
      /\ \A i \in DOMAIN wire : wire[i].from = start => i = n + 1
      /\ n = Len(wire) => sent = start
      /\ n < Len(wire) => n + 1 \in DOMAIN wire /\ wire[n + 1].from = start
  BY ReadingFacts, TypeFacts DEF CoreInv, HttpTypeInv
<1>2. HeadCutShort => fin
  BY DEF HeadCutShort, NoBytes, AtEof, WellBehaved, PoliteInv, SentInv
<1>3. \A i \in DOMAIN wire :
        /\ wire[i].from \in Nat /\ wire[i].head \in Nat /\ wire[i].to \in Nat
        /\ wire[i].from + 4 < wire[i].head /\ WithinLimits(wire[i])
  BY <1>1, WireFacts DEF WellBehaved
<1> HIDE DEF n
<1>4. CASE n = Len(wire)
  <2>1. taken = start
    BY <1>1, <1>4, SMT
  <2>2. ~Terminated
    <3>1. \A a, b \in Nat : ~(a + 4 <= b /\ b <= a)
      BY SMT
    <3> QED
      BY <1>1, <1>3, <2>1, <3>1 DEF Terminated, EndLen
  <2>3. ~(Accumulated > MaxHeader)
    BY <1>1, <2>1, SMT DEF Accumulated
  <2> QED
    BY <1>2, <2>2, <2>3 DEF HeadTooLarge, HeadRejected
<1>5. CASE n < Len(wire)
  <2>1. /\ n + 1 \in DOMAIN wire /\ wire[n + 1].from = start /\ Acceptable(wire[n + 1])
    BY <1>1, <1>3, <1>5, LimitsAccepted
  <2>2. ~HeadRejected
    BY <2>1 DEF HeadRejected
  <2>3. ASSUME Accumulated > MaxHeader PROVE Terminated
    <3>1. /\ wire[n + 1].head \in Nat /\ start + 4 < wire[n + 1].head
          /\ wire[n + 1].head - start <= MaxHeader + 1
      BY <1>3, <2>1 DEF WithinLimits
    <3>2. start + 4 <= wire[n + 1].head /\ wire[n + 1].head <= taken
      <4>1. \A s, t, h, m \in Nat :
              s + 4 < h /\ h - s <= m + 1 /\ t - s > m => s + 4 <= h /\ h <= t
        BY SMT
      <4> QED
        BY <1>1, <2>3, <3>1, <4>1 DEF Accumulated
    <3> QED
      BY <2>1, <3>2 DEF Terminated, EndLen
  <2> QED
    BY <1>2, <2>2, <2>3 DEF HeadTooLarge
<1> QED
  BY <1>1, <1>4, <1>5, SMT

(* read_request takes a request within the limits as a whole. *)
LEMMA PoliteRead ==
  ASSUME WellBehaved, CoreInv, BodyInv, WholeInv, FrameInv, PoliteInv,
         ReadRequest, UNCHANGED <<writerVars, served>>
  PROVE  PoliteInv'
<1> DEFINE n == Len(served)
<1>0. ~ReadStale
  BY DEF WellBehaved, ReadStale, WaitFails
<1>1. UNCHANGED <<wire, sent, fin, gone, output, intact, todo, served>>
  BY <1>0
     DEF ReadRequest, ReadHead, HeadTooLarge, HeadCutShort, HeadRejected, BeginLength,
         BeginChunked, BeginUnframed, Parsed, ReadExact, ExactCutShort, ReadMore,
         ReadMoreAgain, ChunkSize, ChunkData, ChunkEnd, Recv, streamVars, writerVars
<1>2. /\ pc \in InRequest \cup {"head"} /\ pc' \in InRequest \cup {"head", "closing"}
      /\ start' = start
  BY <1>0
     DEF ReadRequest, ReadHead, HeadTooLarge, HeadCutShort, HeadRejected, BeginLength,
         BeginChunked, BeginUnframed, Parsed, ReadExact, ExactCutShort, ReadMore,
         ReadMoreAgain, ChunkSize, ChunkData, ChunkEnd, ChunkError, Deliver, Refuse, Decoding,
         InRequest, readerVars, streamVars
<1>3. SentInv'
  <2>1. Replies' = Replies
    BY <1>1, <1>2 DEF Replies, InRequest
  <2> QED
    BY <1>1, <1>2, <2>1, SentKept DEF PoliteInv, InRequest
<1>4. /\ n \in Nat /\ n <= Len(wire) /\ wire \in Wires /\ Len(wire) \in Nat
      /\ start \in Nat /\ taken \in Nat /\ sent \in Nat /\ start <= taken /\ taken <= sent
      /\ \A i \in DOMAIN wire : wire[i].from = start => i = n + 1
      /\ n = Len(wire) => sent = start
      /\ n < Len(wire) => /\ n + 1 \in DOMAIN wire /\ wire[n + 1].from = start
                          /\ sent <= wire[n + 1].to
      /\ fin => sent = start \/ (n < Len(wire) /\ sent = wire[n + 1].to)
  BY <1>2, ReadingFacts, TypeFacts DEF CoreInv, HttpTypeInv
<1>5. \A i \in DOMAIN wire :
        /\ i \in Nat /\ wire[i] \in Request /\ LaidOut(wire[i])
        /\ wire[i].from \in Nat /\ wire[i].head \in Nat /\ wire[i].to \in Nat
        /\ wire[i].from + 4 < wire[i].head /\ wire[i].head <= wire[i].to
        /\ WithinLimits(wire[i])
  <2>1. DOMAIN wire = 1 .. Len(wire)
    BY <1>4, WireFacts
  <2>2. \A i \in DOMAIN wire : i \in Nat
    BY <1>4, <2>1, SMT
  <2> QED
    BY <1>4, <2>2, WireFacts DEF WellBehaved
(* It is enough to see which request is read, and what is handed on. *)
<1>6. ASSUME pc' # "closing" \/ fin,
             pc' \in InRequest => cur' = n + 1,
             pc' = "handle" => taken' = wire[cur'].to /\ body' = BodyBytes(wire[cur'])
      PROVE  PoliteInv'
  <2>1. TurnInv
    BY DEF PoliteInv
  <2>2. TurnInv'
    BY <1>1, <1>2, <1>6, <2>1, BodiesKept DEF TurnInv, InRequest, Boundary, BodyBytes, ChunkBytes
  <2> QED
    BY <1>3, <2>2 DEF PoliteInv
<1>7. pc \in InRequest => cur = n + 1 /\ cur \in DOMAIN wire
  BY DEF PoliteInv, TurnInv, CoreInv, HttpTypeInv, CurInv
<1>8. CASE ReadHead \/ HeadTooLarge \/ HeadCutShort \/ HeadRejected
  <2>1. pc = "head" /\ (pc' = "head" \/ (pc' = "closing" /\ fin))
    BY <1>8, PoliteHead
    DEF ReadHead, HeadTooLarge, HeadCutShort, HeadRejected, Refuse, readerVars
  <2> QED
    BY <1>6, <2>1 DEF InRequest
<1>9. ASSUME NEW i \in DOMAIN wire, BeginLength(i) \/ BeginChunked(i) \/ BeginUnframed(i)
      PROVE  PoliteInv'
  <2>1. /\ wire[i].from = start /\ Terminated /\ cur' = i /\ taken' = taken
        /\ pc' \in InRequest
    BY <1>9
    DEF BeginLength, BeginChunked, BeginUnframed, Parsed, Deliver, InRequest, streamVars
  <2>2. i = n + 1 /\ wire[i].head <= taken /\ taken <= wire[i].to
    <3>1. i = n + 1 /\ wire[i].head <= taken
      BY <1>4, <2>1, ParsedHead DEF CoreInv
    <3>2. n < Len(wire)
      <4>1. DOMAIN wire = 1 .. Len(wire)
        BY <1>4, WireFacts
      <4> QED
        BY <1>4, <3>1, <4>1, SMT
    <3>3. sent <= wire[i].to /\ wire[i].to \in Nat
      BY <1>4, <1>5, <3>1, <3>2
    <3>4. taken <= wire[i].to
      BY <1>4, <3>3, SMT
    <3> QED
      BY <3>1, <3>4
  <2>3. ASSUME pc' = "handle"
        PROVE  taken' = wire[i].to /\ body' = BodyBytes(wire[i])
    <3>1. CASE BeginLength(i)
      <4>1. /\ wire[i].to <= taken /\ wire[i].framing = "length"
            /\ body' = (wire[i].head + 1 .. taken) \cap BodyBytes(wire[i])
        BY <2>3, <3>1 DEF BeginLength, Parsed, After
      <4>2. taken = wire[i].to
        BY <1>4, <1>5, <2>2, <4>1, SMT
      <4> QED
        BY <2>1, <4>1, <4>2 DEF BodyBytes
    <3>2. CASE BeginUnframed(i)
      <4>1. /\ wire[i].framing = "none" /\ wire[i].to = wire[i].head
            /\ body' = wire[i].head + 1 .. taken
        BY <1>5, <3>2 DEF BeginUnframed, Parsed, After, WithinLimits
      <4>2. taken = wire[i].to
        BY <1>4, <1>5, <2>2, <4>1, SMT
      <4> QED
        BY <2>1, <4>1, <4>2 DEF BodyBytes
    <3>3. ~BeginChunked(i)
      BY <2>3 DEF BeginChunked
    <3> QED
      BY <1>9, <3>1, <3>2, <3>3
  <2> QED
    BY <1>6, <2>1, <2>2, <2>3 DEF InRequest
<1>10. CASE ReadExact \/ ExactCutShort
  <2>1. /\ pc = "exact" /\ cur' = cur /\ wire[cur].framing = "length"
        /\ wire[cur].head <= taken /\ taken < wire[cur].to /\ wire[cur].from = start
        /\ body = wire[cur].head + 1 .. taken
    BY <1>10 DEF ReadExact, ExactCutShort, CoreInv, CurInv, BodyInv, InRequest, After
  <2>2. cur = n + 1 /\ cur \in DOMAIN wire
    BY <1>7, <2>1 DEF InRequest
  <2>3. CASE ReadExact
    <3>1. PICK k \in 1 .. ReadBlock :
            /\ Recv(Want, k) /\ body' = body \cup (taken + 1 .. taken + k)
            /\ IF k = Missing THEN Deliver ELSE UNCHANGED pc
      BY <2>3 DEF ReadExact
    <3>2. taken' = taken + k
      BY <3>1 DEF Recv
    <3>3. k = Missing => taken' = wire[cur].to /\ body' = wire[cur].head + 1 .. wire[cur].to
      <4> DEFINE h == wire[cur].head
                 w == wire[cur].to
      <4>1. /\ h \in Nat /\ w \in Nat /\ h <= taken /\ taken < w /\ Missing = w - taken
            /\ body = h + 1 .. taken
        BY <1>5, <2>1, <2>2 DEF Missing
      <4> HIDE DEF h, w
      <4>2. /\ taken + Missing = w
            /\ (h + 1 .. taken) \cup (taken + 1 .. taken + Missing) = h + 1 .. w
        BY <1>4, <4>1, SMT
      <4>3. k = Missing => taken' = w /\ body' = h + 1 .. w
        BY <3>1, <3>2, <4>1, <4>2
      <4> QED
        BY <4>3 DEF h, w
    <3>4. pc' = "handle" => taken' = wire[cur].to /\ body' = BodyBytes(wire[cur])
      BY <2>1, <3>1, <3>3 DEF BodyBytes
    <3>5. pc' # "closing"
      BY <2>1, <3>1 DEF Deliver
    <3> QED
      BY <1>6, <2>1, <2>2, <3>4, <3>5
  <2>4. ~ExactCutShort
    <3> SUFFICES ASSUME fin, taken = sent PROVE FALSE
      BY DEF ExactCutShort, NoBytes, AtEof, WellBehaved, PoliteInv, SentInv
    <3>1. sent = start \/ sent = wire[cur].to
      BY <1>4, <2>2
    <3> QED
      BY <1>4, <1>5, <2>1, <2>2, <3>1, SMT
  <2> QED
    BY <1>10, <2>3, <2>4
<1>11. CASE ReadMore \/ ReadMoreAgain
  <2>1. UNCHANGED <<pc, cur>> /\ Decoding
    BY <1>11 DEF ReadMore, ReadMoreAgain, readerVars
  <2> QED
    BY <1>6, <1>7, <2>1 DEF Decoding, InRequest
<1>12. CASE ChunkSize \/ ChunkData \/ ChunkEnd
  <2>1. /\ Decoding /\ UNCHANGED <<taken, cur>> /\ chunk \in Nat \ {0}
        /\ cur \in DOMAIN wire /\ wire[cur] \in Request /\ LaidOut(wire[cur])
        /\ wire[cur].framing = "chunked" /\ body = Decoded(wire[cur], chunk)
        /\ cur = n + 1
    BY <1>7, <1>12, DecoderFacts
    DEF ChunkSize, ChunkData, ChunkEnd, Decoding, BodyInv, CoreInv, HttpTypeInv, InRequest,
        streamVars
  <2>2. CASE ChunkSize
    <3>1. chunk # wire[cur].bad
      BY <1>5, <2>1 DEF WithinLimits
    <3> QED
      BY <1>6, <2>1, <2>2, <3>1 DEF ChunkSize
  <2>3. CASE ChunkData
    <3> DEFINE out == body \cup ChunkBytes(wire[cur], chunk)
    <3>1. out = Decoded(wire[cur], chunk + 1)
      BY <2>1, DecodedNext
    <3>2. out \subseteq BodyBytes(wire[cur])
      <4>1. /\ Len(wire[cur].sizes) \in Nat
            /\ DOMAIN wire[cur].sizes = 1 .. Len(wire[cur].sizes)
            /\ chunk < Len(wire[cur].sizes) + 1
        BY <2>1, <2>3, ChunkFacts DEF CoreInv, CurInv, ChunkData, LastChunk
      <4>2. 1 .. (chunk + 1) - 1 \subseteq DOMAIN wire[cur].sizes
        BY <2>1, <4>1, SMT
      <4> QED
        BY <2>1, <3>1, <4>2 DEF Decoded, BodyBytes
    <3>3. ~(Cardinality(out) > MaxBody)
      <4>1. IsFiniteSet(BodyBytes(wire[cur])) /\ Cardinality(BodyBytes(wire[cur])) <= MaxBody
        BY <1>5, <2>1, BodyFinite DEF WithinLimits
      <4>2. /\ Cardinality(out) <= Cardinality(BodyBytes(wire[cur]))
            /\ Cardinality(out) \in Nat /\ Cardinality(BodyBytes(wire[cur])) \in Nat
        BY <3>2, <4>1, FS_Subset, FS_CardinalityType
      <4> HIDE DEF out
      <4> QED
        BY <4>1, <4>2, SMT
    <3>4. pc' = "size"
      BY <2>3, <3>3 DEF ChunkData
    <3> QED
      BY <1>6, <2>1, <3>4
  <2>4. CASE ChunkEnd
    <3>1. /\ pc = "last" /\ taken >= At + (3 + 2) /\ body' = body
          /\ chunk = LastChunk(wire[cur])
      BY <2>4 DEF ChunkEnd, Buffered, Needed, LineLen, CrlfLen, WholeInv
    <3>2. body' = BodyBytes(wire[cur])
      BY <2>1, <3>1, DecodedWhole
    <3>3. At \in Nat /\ wire[cur].to = At + 3 + 2
      BY <2>1, <3>1, DecoderFacts DEF At, LaidOut, LineLen, CrlfLen, CoreInv
    <3>4. sent <= wire[cur].to
      <4>1. n < Len(wire)
        <5>1. DOMAIN wire = 1 .. Len(wire)
          BY <1>4, WireFacts
        <5> QED
          BY <1>4, <2>1, <5>1, SMT
      <4> QED
        BY <1>4, <2>1, <4>1
    <3>5. taken = wire[cur].to
      <4>1. \A a, t, s, w \in Nat : t >= a + (3 + 2) /\ w = a + 3 + 2 /\ t <= s /\ s <= w => t = w
        BY SMT
      <4>2. wire[cur].to \in Nat
        BY <1>5, <2>1
      <4> QED
        BY <1>4, <3>1, <3>3, <3>4, <4>1, <4>2
    <3>6. pc' = "handle"
      BY <2>4 DEF ChunkEnd, Deliver
    <3> QED
      BY <1>6, <2>1, <3>2, <3>5, <3>6
  <2> QED
    BY <1>12, <2>2, <2>3, <2>4
<1> QED
  BY <1>0, <1>8, <1>9, <1>10, <1>11, <1>12 DEF ReadRequest

(* The client has its answers to the requests before, and waits for this one. *)
LEMMA PoliteAnswer ==
  ASSUME CoreInv, FrameInv, PoliteInv, Answer
  PROVE  PoliteInv'
<1> DEFINE n == Len(served)
<1>1. /\ pc = "handle" /\ pc' = "write" /\ BeginResponse
      /\ UNCHANGED <<wire, sent, fin, gone, taken, cur, output, intact>>
      /\ served' = Append(served, [of |-> cur, body |-> body, failed |-> failed])
  BY DEF Answer, streamVars
<1>2. /\ served \in Seq(ServedSet) /\ cur \in DOMAIN wire /\ cur = n + 1
      /\ taken = wire[cur].to /\ body = BodyBytes(wire[cur]) /\ HttpTypeInv
      /\ Len(wire) \in Nat /\ DOMAIN wire = 1 .. Len(wire) /\ Replies = n /\ n \in Nat
  <2>1. n \in Nat /\ Replies = n
    BY <1>1, ReadingFacts DEF InRequest
  <2> QED
    BY <1>1, <2>1, TypeFacts
    DEF CoreInv, HttpTypeInv, CurInv, InRequest, PoliteInv, TurnInv
<1>3. /\ n \in Nat /\ Len(served') = n + 1 /\ served' # <<>>
      /\ \A j \in DOMAIN served' : \/ j \in DOMAIN served /\ served'[j] = served[j]
                                   \/ /\ j = n + 1
                                      /\ served'[j].of = cur /\ served'[j].body = body
  <2> DEFINE new == [of |-> cur, body |-> body, failed |-> failed]
  <2>1. new.of = cur /\ new.body = body
    OBVIOUS
  <2>2. served' = Append(served, new)
    BY <1>1
  <2> HIDE DEF new
  <2>3. /\ Len(served') = n + 1 /\ served' # <<>>
        /\ \A j \in DOMAIN served' : \/ j \in DOMAIN served /\ served'[j] = served[j]
                                     \/ j = n + 1 /\ served'[j] = new
    BY <1>2, <2>2, SMT
  <2> QED
    BY <1>2, <2>1, <2>3
<1>4. todo' # <<>>
  BY <1>1, <1>2, ResponseFrames
<1>5. Replies' = Replies
  BY <1>1, <1>2, <1>3, <1>4, SMT DEF Replies
<1>6. SentInv'
  BY <1>1, <1>5, SentKept DEF PoliteInv
<1>7. n + 1 <= Len(wire)
  BY <1>2, SMT
<1>8. \A j \in DOMAIN served' : served'[j].of = j /\ served'[j].body = BodyBytes(wire[j])
  BY <1>2, <1>3 DEF PoliteInv, TurnInv, OwnBodies
<1>9. OwnBodies'
  <2>1. wire' = wire
    BY <1>1
  <2>2. \A j : BodyBytes(wire[j])' = BodyBytes(wire[j])
    BY <2>1 DEF BodyBytes, ChunkBytes
  <2> QED
    BY <1>8, <2>2 DEF OwnBodies
<1>10. TurnInv'
  BY <1>1, <1>2, <1>3, <1>7, <1>9 DEF TurnInv, InRequest
<1> QED
  BY <1>6, <1>10 DEF PoliteInv

(* The client may send up to the end of the request that is being answered,
   and further once it is. *)
LEMMA AllowanceGrows ==
  ASSUME wire \in Wires, NEW n \in 1 .. Len(wire), NEW s \in Nat, s <= Allowance(n - 1)
  PROVE  s <= Allowance(n)
<1>1. /\ Len(wire) \in Nat /\ n \in Nat
      /\ \A i \in 1 .. Len(wire) :
           wire[i].from \in Nat /\ wire[i].to \in Nat /\ wire[i].from < wire[i].to
      /\ \A i, j \in 1 .. Len(wire) : i < j => wire[i].to <= wire[j].from
  <2>1. \A a, b, c \in Nat : a + 4 < b /\ b <= c => a < c
    BY SMT
  <2>2. Len(wire) \in Nat /\ n \in Nat /\ DOMAIN wire = 1 .. Len(wire)
    BY WireFacts, SMT
  <2> QED
    BY <2>1, <2>2, WireFacts
<1>2. \A i, j \in 1 .. Len(wire) : i < j => wire[i].to <= wire[j].to
  <2>1. \A a, b, c \in Nat : a <= b /\ b < c => a <= c
    BY SMT
  <2> QED
    BY <1>1, <2>1
<1>3. s <= wire[n].to
  <2>1. CASE n = 1
    <3>1. n - 1 = 0
      BY <2>1, SMT
    <3> QED
      BY <2>1, <3>1 DEF Allowance
  <2>2. CASE n # 1
    <3>1. n - 1 \in 1 .. Len(wire) /\ n - 1 < n /\ n - 1 # 0 /\ n - 1 # Len(wire) /\ (n - 1) + 1 = n
      BY <1>1, <2>2, SMT
    <3>2. Allowance(n - 1) = wire[n - 1].to \/ Allowance(n - 1) = wire[n].to
      BY <3>1 DEF Allowance
    <3>3. \A a, b, c \in Nat : a <= b /\ b <= c => a <= c
      BY SMT
    <3> QED
      BY <1>1, <1>2, <3>1, <3>2, <3>3
  <2> QED
    BY <2>1, <2>2
<1>4. wire[n].to <= Allowance(n) /\ Allowance(n) \in Nat
  <2>1. n # 0
    BY <1>1, SMT
  <2>2. CASE n = Len(wire) \/ ~wire[n].keep
    <3>1. Allowance(n) = wire[n].to
      BY <2>1, <2>2 DEF Allowance
    <3> QED
      BY <1>1, <3>1, SMT
  <2>3. CASE n # Len(wire) /\ wire[n].keep
    <3>1. n + 1 \in 1 .. Len(wire) /\ n < n + 1
      BY <1>1, <2>3, SMT
    <3>2. Allowance(n) = wire[n + 1].to
      BY <2>1, <2>3 DEF Allowance
    <3> QED
      BY <1>1, <1>2, <3>1, <3>2
  <2> QED
    BY <2>2, <2>3
<1>5. \A a, b, c \in Nat : a <= b /\ b <= c => a <= c
  BY SMT
<1> QED
  BY <1>1, <1>3, <1>4, <1>5

(* The pieces that end a response are the last ones: with them one more request
   is answered. *)
LEMMA PoliteWrite ==
  ASSUME CoreInv, FrameInv, PoliteInv, WritePiece, UNCHANGED served
  PROVE  PoliteInv'
<1> DEFINE n == Len(served)
<1>1. /\ served \in Seq(ServedSet) /\ output \in Seq(PieceSet) /\ todo \in Seq(PieceSet)
      /\ wire \in Wires /\ Len(wire) \in Nat /\ sent \in Nat
      /\ todo # <<>> /\ pc = "write"
      /\ UNCHANGED <<wire, sent, fin, gone, taken, pc, cur, served>>
      /\ output' = Append(output, Head(todo)) /\ todo' = Tail(todo)
      /\ intact = Len(output) /\ intact' = intact + 1
  BY TypeFacts
  DEF CoreInv, HttpTypeInv, WritePiece, streamVars, readerVars, PoliteInv, SentInv
<1>2. /\ n \in Nat /\ n # 0 /\ n <= Len(wire) /\ cur = n /\ Replies = n - 1
      /\ Answered = 1 .. n - 1 /\ sent <= Allowance(n - 1) /\ n \in 1 .. Len(wire)
  <2>1. /\ n <= Len(wire) /\ cur = n /\ served # <<>>
        /\ Answered = 1 .. Replies /\ sent <= Allowance(Replies)
    BY <1>1 DEF PoliteInv, SentInv, TurnInv
  <2>2. Replies = n - 1
    BY <1>1 DEF Replies
  <2>3. n \in Nat /\ n # 0
    BY <1>1, <2>1, EmptySeq, LenProperties, SMT
  <2>4. n \in 1 .. Len(wire)
    BY <1>1, <2>1, <2>3, SMT
  <2> QED
    BY <2>1, <2>2, <2>3, <2>4
<1>3. /\ Head(todo) \in PieceSet /\ Head(todo).of = n /\ Remainder(todo)
  <2>1. Head(todo) \in PieceSet /\ Head(todo) = todo[1] /\ 1 \in DOMAIN todo
    BY <1>1, SMT
  <2> QED
    BY <1>2, <2>1 DEF FrameInv
<1>4. /\ Answered' = IF Head(todo).part \in {"whole", "end"} THEN Answered \cup {n} ELSE Answered
      /\ intact' = Len(output')
  <2>1. /\ Len(output) \in Nat /\ DOMAIN output = 1 .. Len(output)
        /\ Len(output') = Len(output) + 1
        /\ output'[Len(output) + 1] = Head(todo)
        /\ \A k \in 1 .. Len(output) : output'[k] = output[k]
    BY <1>1, <1>3, AppendProperties, LenProperties, SMT
  <2>2. \A k : k \in 1 .. intact' <=> k \in 1 .. intact \/ k = Len(output) + 1
    BY <1>1, <2>1, SMT
  <2>3. \A k \in 1 .. intact : output'[k] = output[k]
    BY <1>1, <2>1
  <2> QED
    BY <1>1, <1>3, <2>1, <2>2, <2>3 DEF Answered
<1>5. todo' = <<>> <=> Head(todo).part \in {"whole", "end"}
  BY <1>1, <1>3, RemainderTail
<1>6. SentInv'
  <2>1. CASE todo' = <<>>
    <3>1. Replies' = n
      <4>1. n - 0 = n
        BY <1>2, SMT
      <4> QED
        BY <1>1, <2>1, <4>1 DEF Replies
    <3>2. (1 .. n - 1) \cup {n} = 1 .. n
      BY <1>2, SMT
    <3>3. sent <= Allowance(n)
      BY <1>1, <1>2, AllowanceGrows
    <3>4. Allowance(n)' = Allowance(n)
      BY <1>1 DEF Allowance
    <3> QED
      BY <1>1, <1>2, <1>4, <1>5, <2>1, <3>1, <3>2, <3>3, <3>4
      DEF PoliteInv, SentInv, Clean, AtBoundary, Allowance
  <2>2. CASE todo' # <<>>
    <3>1. Replies' = Replies
      BY <1>1, <2>2 DEF Replies
    <3> QED
      BY <1>1, <1>4, <1>5, <2>2, <3>1 DEF PoliteInv, SentInv, Clean, AtBoundary, Allowance
  <2> QED
    BY <2>1, <2>2
<1>7. TurnInv'
  BY <1>1, BodiesKept DEF PoliteInv, TurnInv, InRequest
<1> QED
  BY <1>6, <1>7 DEF PoliteInv

(* At first nothing is sent, and nothing served. *)
LEMMA PoliteInit == HttpInit => PoliteInv
<1> SUFFICES ASSUME HttpInit PROVE PoliteInv
  OBVIOUS
<1>1. /\ served = <<>> /\ todo = <<>> /\ output = <<>> /\ pc = "head" /\ wire \in Wires
      /\ gone = FALSE /\ fin = FALSE /\ sent = 0 /\ start = 0 /\ intact = 0
  BY DEF HttpInit, StreamInit, ReaderInit, WriterInit
<1>2. Len(<<>>) = 0 /\ DOMAIN <<>> = {} /\ 0 - 0 = 0 /\ 1 .. 0 = {}
  BY SMT
<1>3. 0 <= Len(wire) /\ 0 <= wire[1].to
  <2>1. Len(wire) \in Nat \ {0} /\ DOMAIN wire = 1 .. Len(wire)
        /\ \A i \in DOMAIN wire : wire[i].to \in Nat
    BY <1>1, WireFacts
  <2> QED
    BY <2>1, SMT
<1>4. Replies = 0 /\ Answered = {}
  BY <1>1, <1>2 DEF Replies, Answered
<1>5. SentInv
  BY <1>1, <1>2, <1>3, <1>4 DEF SentInv, Clean, Allowance
<1>6. TurnInv
  BY <1>1, <1>2, <1>3 DEF TurnInv, OwnBodies, Boundary, InRequest
<1> QED
  BY <1>5, <1>6 DEF PoliteInv

(* A well-behaved client waits for its responses, and closes between them. *)
LEMMA PoliteClient ==
  ASSUME WellBehaved, CoreInv, FrameInv, PoliteInv, Client
  PROVE  PoliteInv'
<1>1. UNCHANGED <<wire, taken, pc, start, cur, body, todo, output, intact, served>>
  BY DEF Client, Arrives, Closes, Resets, readerVars, writerVars
<1>2. Replies \in Nat
  <2>1. served \in Seq(ServedSet)
    BY DEF CoreInv, HttpTypeInv
  <2>2. Len(served) \in Nat /\ (served # <<>> => Len(served) # 0)
    BY <2>1, EmptySeq, LenProperties, SMT
  <2>3. pc = "write" => served # <<>>
    BY DEF FrameInv
  <2> QED
    BY <2>2, <2>3, SMT DEF Replies
<1>3. Limit = Allowance(Replies)
  <2>1. Cardinality(Answered) = Replies
    <3>1. Answered = 1 .. Replies
      BY DEF PoliteInv, SentInv
    <3>2. Cardinality(1 .. Replies) = Replies
      BY <1>2, FS_Interval, SMT
    <3> QED
      BY <3>1, <3>2
  <2> QED
    BY <2>1 DEF Limit, Allowance, WellBehaved
<1>4. Replies' = Replies /\ Allowance(Replies)' = Allowance(Replies) /\ Answered' = Answered
  BY <1>1 DEF Replies, Allowance, Answered
<1>5. SentInv'
  <2>1. CASE Arrives(Limit)
    <3>1. sent' <= Allowance(Replies) /\ UNCHANGED <<fin, gone>> /\ ~fin
      <4>1. Limit \in Nat /\ sent \in Nat
        BY LimitBound, TypeFacts DEF CoreInv
      <4>2. sent' <= Limit
        BY <2>1, <4>1, SMT DEF Arrives
      <4> QED
        BY <1>3, <2>1, <4>2 DEF Arrives
    <3> QED
      BY <1>1, <1>4, <3>1 DEF PoliteInv, SentInv, Clean
  <2>2. CASE AtBoundary /\ Closes
    BY <1>1, <1>4, <2>2 DEF PoliteInv, SentInv, Clean, AtBoundary, Closes
  <2> QED
    BY <2>1, <2>2 DEF Client, WellBehaved
<1>6. TurnInv'
  <2>1. fin => fin'
    BY DEF Client, Arrives, Closes, Resets
  <2> QED
    BY <1>1, <2>1, BodiesKept
    DEF PoliteInv, TurnInv, InRequest, Boundary, BodyBytes, ChunkBytes
<1> QED
  BY <1>5, <1>6 DEF PoliteInv

(* Every step keeps what is known of a well-behaved client. *)
LEMMA PoliteStep ==
  ASSUME WellBehaved
  PROVE  CoreInv /\ BodyInv /\ WholeInv /\ FrameInv /\ PoliteInv /\ [HttpNext]_connVars
           => PoliteInv'
<1> SUFFICES ASSUME CoreInv, BodyInv, WholeInv, FrameInv, PoliteInv, [HttpNext]_connVars
             PROVE  PoliteInv'
  OBVIOUS
<1>1. CASE UNCHANGED connVars
  <2>1. UNCHANGED <<wire, sent, fin, gone, taken, pc, start, cur, body, todo, output, intact,
                    served>>
    BY <1>1 DEF connVars, streamVars, readerVars, writerVars
  <2>2. SentInv'
    BY <2>1, SentKept DEF PoliteInv, SentInv, Clean, Replies
  <2>3. TurnInv'
    BY <2>1, BodiesKept
    DEF PoliteInv, TurnInv, InRequest, Boundary, BodyBytes, ChunkBytes
  <2> QED
    BY <2>2, <2>3 DEF PoliteInv
<1>2. CASE ReadRequest /\ UNCHANGED <<writerVars, served>>
  BY <1>2, PoliteRead
<1>3. CASE WriteResponse /\ UNCHANGED served
  <2>1. ~WriteFails /\ ~WriteMiscounts
    BY DEF WriteFails, WriteMiscounts, WellBehaved, PoliteInv, SentInv
  <2> QED
    BY <1>3, <2>1, PoliteWrite DEF WriteResponse
<1>4. CASE NextRequest \/ CloseSocket
  <2>1. /\ UNCHANGED <<wire, sent, fin, gone, taken, todo, output, intact, served>>
        /\ todo = <<>> /\ pc' # "foul"
    BY <1>4
    DEF NextRequest, CloseSocket, NewReader, Refuse, FrameInv, streamVars, writerVars
  <2>2. SentInv'
    <3>1. Replies' = Replies
      BY <2>1 DEF Replies
    <3> QED
      BY <2>1, <3>1, SentKept DEF PoliteInv
  <2>3. CASE CloseSocket
    BY <2>1, <2>2, <2>3, BodiesKept DEF CloseSocket, PoliteInv, TurnInv, InRequest
  <2>4. CASE NextRequest
    <3>1. /\ pc = "write" /\ cur = Len(served) /\ served # <<>> /\ taken = wire[cur].to
          /\ \/ wire[cur].keep /\ pc' = "head" /\ start' = taken
             \/ ~wire[cur].keep /\ pc' = "closing"
      BY <2>4 DEF NextRequest, NewReader, Refuse, PoliteInv, TurnInv
    <3>2. Len(served) # 0
      <4>1. served \in Seq(ServedSet)
        BY DEF CoreInv, HttpTypeInv
      <4> QED
        BY <3>1, <4>1, EmptySeq
    <3> QED
      BY <2>1, <2>2, <3>1, <3>2, BodiesKept
      DEF PoliteInv, TurnInv, InRequest, Boundary
  <2> QED
    BY <1>4, <2>3, <2>4
<1>5. ~Misread
  BY DEF Misread, PoliteInv, SentInv, Clean
<1> QED
  BY <1>1, <1>2, <1>3, <1>4, <1>5, PoliteAnswer, PoliteClient DEF HttpNext, Server

(* What the handler has got, and how much of it is answered, as the contract
   sees it. *)
Received == [j \in DOMAIN served |-> served[j].body]
Asked == [i \in DOMAIN wire |-> [keep |-> wire[i].keep, body |-> BodyBytes(wire[i])]]
Replied == Len(served) - (IF pc = "write" THEN 1 ELSE 0)

(* The numbers behind them. *)
LEMMA ContractFacts ==
  ASSUME CoreInv
  PROVE  /\ Len(served) \in Nat /\ Len(Received) = Len(served)
         /\ Len(Asked) = Len(wire) /\ Len(wire) \in Nat
         /\ (Received = <<>> <=> served = <<>>) /\ (served = <<>> <=> Len(served) = 0)
         /\ \A i \in DOMAIN wire : Asked[i].keep = wire[i].keep
                                  /\ Asked[i].body = BodyBytes(wire[i])
<1>1. served \in Seq(ServedSet)
  BY DEF CoreInv, HttpTypeInv
<1>2. /\ Len(served) \in Nat /\ DOMAIN served = 1 .. Len(served)
      /\ (served = <<>> <=> Len(served) = 0)
      /\ Len(wire) \in Nat /\ DOMAIN wire = 1 .. Len(wire)
  BY <1>1, TypeFacts, EmptySeq, LenProperties, SMT DEF CoreInv
<1>3. \A i \in DOMAIN wire : Asked[i].keep = wire[i].keep /\ Asked[i].body = BodyBytes(wire[i])
  BY DEF Asked
<1>4. /\ DOMAIN Received = 1 .. Len(served) /\ DOMAIN Asked = 1 .. Len(wire)
  BY <1>2 DEF Received, Asked
<1>5. Received \in Seq(SUBSET Nat)
  <2>1. \A j \in DOMAIN served : served[j] \in ServedSet
    BY <1>1, SMT
  <2>2. Received \in [1 .. Len(served) -> SUBSET Nat]
    BY <1>2, <2>1 DEF Received, ServedSet
  <2> QED
    BY <1>2, <2>2, SeqDef
<1>6. Len(Received) = Len(served) /\ (Received = <<>> <=> Len(Received) = 0)
  BY <1>2, <1>4, <1>5, LenProperties, EmptySeq, SMT
<1>7. Len(Asked) = Len(wire)
  <2>1. Asked \in Seq({Asked[i] : i \in DOMAIN wire})
    <3>1. Asked \in [1 .. Len(wire) -> {Asked[i] : i \in DOMAIN wire}]
      BY <1>2, <1>4 DEF Asked
    <3> QED
      BY <1>2, <3>1, SeqDef
  <2> QED
    BY <1>2, <1>4, <2>1, LenProperties, SMT
<1> QED
  BY <1>2, <1>3, <1>6, <1>7

(* Every step of the connection is one of the contract, or none. *)
LEMMA HttpMaps ==
  ASSUME CoreInv, FrameInv, PoliteInv, [HttpNext]_connVars
  PROVE  [Contract!Receive \/ Contract!Reply \/ Contract!HangUp \/ Contract!Leave]_(Contract!contractVars)
<1> DEFINE n == Len(served)
           Up == pc # "closed"
           Idle == Replied = Len(Received)
           Finished == Idle /\ Received # <<>> /\ ~Asked[Replied].keep
           Steps == \/ /\ Up /\ Idle /\ ~Finished /\ Len(Received) < Len(Asked)
                       /\ Received' = Append(Received, Asked[Len(Received) + 1].body)
                       /\ UNCHANGED <<Asked, fin, Replied, Up>>
                    \/ /\ Up /\ ~Idle /\ Replied' = Replied + 1
                       /\ UNCHANGED <<Asked, fin, Received, Up>>
                    \/ /\ Up /\ (Finished \/ (fin /\ Idle)) /\ Up' = FALSE
                       /\ UNCHANGED <<Asked, fin, Received, Replied>>
                    \/ ~fin /\ fin' = TRUE /\ UNCHANGED <<Asked, Received, Replied, Up>>
                    \/ UNCHANGED <<Asked, fin, Received, Replied, Up>>
<1> SUFFICES Steps
  BY DEF Contract!Receive, Contract!Reply, Contract!HangUp, Contract!Leave,
         Contract!Idle, Contract!Finished, Contract!contractVars, Asked, Received, Replied
<1>1. /\ n \in Nat /\ Len(Received) = n /\ Len(Asked) = Len(wire) /\ Len(wire) \in Nat
      /\ (Received = <<>> <=> served = <<>>) /\ (served = <<>> <=> n = 0)
      /\ \A i \in DOMAIN wire : Asked[i].keep = wire[i].keep /\ Asked[i].body = BodyBytes(wire[i])
      /\ served \in Seq(ServedSet) /\ DOMAIN wire = 1 .. Len(wire) /\ n <= Len(wire)
  BY ContractFacts, TypeFacts DEF CoreInv, HttpTypeInv, PoliteInv, TurnInv
<1>2. Asked' = Asked
  <2>1. wire' = wire
    BY DEF HttpNext, Client, Arrives, Closes, Resets, Server, Answer, NextRequest, CloseSocket,
           Misread, WriteResponse, WritePiece, WriteFails, WriteMiscounts, WriteBreaksOff,
           ReadStale, ReadRequest, ReadHead, HeadTooLarge,
           HeadCutShort, HeadRejected, BeginLength, BeginChunked, BeginUnframed, Parsed,
           ReadExact, ExactCutShort, ReadMore, ReadMoreAgain, ChunkSize, ChunkData, ChunkEnd,
           Recv, streamVars, connVars
  <2> QED
    BY <2>1 DEF Asked, BodyBytes, ChunkBytes
<1>3. pc # "write" => Replied = n
  <2>1. n - 0 = n
    BY <1>1, SMT
  <2> QED
    BY <2>1 DEF Replied
(* Steps the contract does not see. *)
<1>4. ASSUME UNCHANGED <<fin, served>>, pc' = "write" <=> pc = "write",
             pc' = "closed" <=> pc = "closed"
      PROVE  Steps
  BY <1>2, <1>4 DEF Received, Replied
<1>5. CASE UNCHANGED connVars
  BY <1>4, <1>5 DEF connVars, streamVars, readerVars
<1>6. CASE Client
  <2>1. UNCHANGED <<pc, served>>
    BY <1>6 DEF Client, readerVars
  <2>2. CASE UNCHANGED fin
    BY <1>4, <2>1, <2>2
  <2>3. CASE Closes
    BY <1>2, <2>1, <2>3 DEF Closes, Received, Replied
  <2> QED
    BY <1>6, <2>2, <2>3 DEF Client, Arrives, Resets
<1>7. CASE ReadRequest /\ UNCHANGED <<writerVars, served>>
  <2>1. UNCHANGED <<fin, served>> /\ pc \in InRequest \cup {"head"}
        /\ pc' \in InRequest \cup {"head", "closing", "foul"}
    BY <1>7
    DEF Reading, ReadStale, ReadRequest, ReadHead, HeadTooLarge, HeadCutShort, HeadRejected, BeginLength,
        BeginChunked, BeginUnframed, Parsed, ReadExact, ExactCutShort, ReadMore, ReadMoreAgain,
        ChunkSize, ChunkData, ChunkEnd, ChunkError, Recv, Deliver, Refuse, Decoding, InRequest,
        streamVars, readerVars
  <2> QED
    BY <1>4, <2>1 DEF InRequest
<1>8. CASE WriteResponse /\ UNCHANGED served
  BY <1>4, <1>8
  DEF WriteResponse, WritePiece, WriteFails, WriteMiscounts, WriteBreaksOff, streamVars,
      readerVars
<1>9. CASE Answer
  <2>1. /\ pc = "handle" /\ pc' = "write" /\ fin' = fin /\ cur = n + 1 /\ cur \in DOMAIN wire
        /\ served' = Append(served, [of |-> cur, body |-> body, failed |-> failed])
        /\ body = BodyBytes(wire[cur]) /\ (served # <<>> => wire[n].keep)
    BY <1>9 DEF Answer, streamVars, PoliteInv, TurnInv, InRequest, CoreInv, CurInv, HttpTypeInv
  <2>2. n < Len(wire) /\ (n # 0 => n \in DOMAIN wire)
    BY <1>1, <2>1, SMT
  <2>3. Received' = Append(Received, Asked[n + 1].body)
    <3>1. /\ DOMAIN served = 1 .. n /\ DOMAIN served' = 1 .. n + 1
          /\ \A j \in 1 .. n : served'[j] = served[j]
          /\ served'[n + 1].body = body
      <4> DEFINE new == [of |-> cur, body |-> body, failed |-> failed]
      <4>1. new.body = body
        OBVIOUS
      <4>2. served' = Append(served, new)
        BY <2>1
      <4> HIDE DEF new
      <4>3. /\ DOMAIN served = 1 .. n /\ DOMAIN served' = 1 .. n + 1
            /\ \A j \in 1 .. n : served'[j] = served[j]
            /\ served'[n + 1] = new
        BY <1>1, <4>2, SMT
      <4> QED
        BY <4>1, <4>3
    <3>2. Received' = [j \in 1 .. n + 1 |-> IF j = n + 1 THEN body ELSE served[j].body]
      <4>1. \A j \in 1 .. n + 1 : j = n + 1 \/ j \in 1 .. n
        BY <1>1, SMT
      <4>2. \A j \in 1 .. n + 1 : served'[j].body = IF j = n + 1 THEN body ELSE served[j].body
        BY <3>1, <4>1
      <4> QED
        BY <3>1, <4>2 DEF Received
    <3>3. Append(Received, body) = [j \in 1 .. n + 1 |-> IF j = n + 1 THEN body ELSE served[j].body]
      <4>1. \A j \in 1 .. n + 1 : j # n + 1 => j \in 1 .. n
        BY <1>1, SMT
      <4> QED
        BY <1>1, <3>1, <4>1, SMT DEF Received
    <3> QED
      BY <1>1, <2>1, <3>2, <3>3
  <2>4. Replied' = n
    <3>1. Len(served') = n + 1 /\ (n + 1) - 1 = n
      BY <1>1, <2>1, SMT
    <3> QED
      BY <2>1, <3>1 DEF Replied
  <2> QED
    BY <1>1, <1>2, <1>3, <2>1, <2>2, <2>3, <2>4
<1>10. CASE NextRequest
  <2>1. pc = "write" /\ pc' \in {"head", "closing"} /\ UNCHANGED <<fin, served>>
    BY <1>10 DEF NextRequest, NewReader, Refuse, streamVars
  <2>2. Replied = n - 1 /\ Replied' = n - 0 /\ Received' = Received
    BY <2>1 DEF Replied, Received
  <2>3. n - 1 # n /\ n - 0 = (n - 1) + 1
    BY <1>1, SMT
  <2> QED
    BY <1>1, <1>2, <2>1, <2>2, <2>3
<1>11. CASE CloseSocket
  <2>1. pc = "closing" /\ pc' = "closed" /\ UNCHANGED <<fin, served>>
    BY <1>11 DEF CloseSocket, streamVars
  <2>2. Replied' = Replied /\ Received' = Received
    BY <2>1 DEF Replied, Received
  <2>3. fin \/ (served # <<>> /\ ~Asked[n].keep)
    <3>1. n # 0 => n \in DOMAIN wire
      BY <1>1, SMT
    <3> QED
      BY <1>1, <2>1, <3>1 DEF PoliteInv, TurnInv
  <2> QED
    BY <1>1, <1>2, <1>3, <2>1, <2>2, <2>3
<1>12. ~Misread
  BY DEF Misread, PoliteInv, SentInv, Clean
<1> QED
  BY <1>5, <1>6, <1>7, <1>8, <1>9, <1>10, <1>11, <1>12 DEF HttpNext, Server

(* For a well-behaved client, however its requests are cut into segments and
   whatever their framing, the connection implements HttpContract: its requests
   reach the handler whole and in order, each is answered before the next, and
   the server does not hang up before the client does or asks for it. *)
THEOREM HttpImplementsContract ==
  ASSUME WellBehaved
  PROVE  HttpSpec => ImplementsHttp
<1>1. HttpInit => Contract!Init
  <2>1. [j \in DOMAIN <<>> |-> <<>>[j].body] = <<>> /\ Len(<<>>) - 0 = 0
    BY SMT
  <2> QED
    BY <2>1 DEF HttpInit, StreamInit, ReaderInit, Contract!Init
<1>2. HttpSpec => [](CoreInv /\ (Clean => BodyInv /\ ServedInv)
                              /\ (Clean => WholeInv) /\ (Clean => OrderInv /\ FrameInv))
  BY WholeInit, WholeStep, BodyHolds, FrameHolds, PTL DEF HttpSpec
<1>3. CoreInv /\ (Clean => BodyInv /\ ServedInv) /\ (Clean => WholeInv)
      /\ (Clean => OrderInv /\ FrameInv) /\ PoliteInv /\ [HttpNext]_connVars
        => PoliteInv'
  <2>1. PoliteInv => Clean
    BY DEF PoliteInv, SentInv
  <2>2. CoreInv /\ BodyInv /\ WholeInv /\ FrameInv /\ PoliteInv /\ [HttpNext]_connVars
          => PoliteInv'
    BY PoliteStep
  <2> QED
    BY <2>1, <2>2
<1>4. PoliteInv /\ (Clean => OrderInv /\ FrameInv) => FrameInv
  BY DEF PoliteInv, SentInv
<1>5. HttpSpec => [](PoliteInv /\ FrameInv)
  BY <1>2, <1>3, <1>4, PoliteInit, PTL DEF HttpSpec
<1>6. CoreInv /\ FrameInv /\ PoliteInv /\ [HttpNext]_connVars =>
        [Contract!Receive \/ Contract!Reply \/ Contract!HangUp \/ Contract!Leave]_(Contract!contractVars)
  BY HttpMaps
<1> QED
  BY <1>1, <1>2, <1>5, <1>6, PTL DEF HttpSpec, ImplementsHttp, Contract!Spec
=============================================================================

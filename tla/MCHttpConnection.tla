-------------------------- MODULE MCHttpConnection --------------------------
(* Instances of the HTTP connection for TLC: requests of few, short bytes. *)
EXTENDS HttpProperties

LOCAL INSTANCE SequencesExt

(* The request r, with its positions still to be filled in, after byte p. *)
Place(r, p) ==
  LET h  == p + r.headLen
      at == FoldLeft(LAMBDA q, n : Append(q, q[Len(q)] + LineLen + n + CrlfLen), <<h>>, r.sizes)
  IN  [from |-> p, head |-> h, framing |-> r.framing, sizes |-> r.sizes, at |-> at,
       to |-> IF r.framing = "chunked" THEN at[LastChunk(r)] + LineLen + CrlfLen ELSE h + r.len,
       bad |-> r.bad, valid |-> r.valid, keep |-> r.keep]

(* All sequences of at most Requests of the requests R. *)
Sequel(w, r) == Append(w, Place(r, IF w = <<>> THEN 0 ELSE w[Len(w)].to))

WiresOf(R) ==
  LET f[n \in 0 .. Requests] ==
        IF n = 0 THEN {<<>>} ELSE f[n-1] \cup {Sequel(w, r) : w \in f[n-1], r \in R}
  IN  f[Requests] \ {<<>>}

Plain(h, n) ==
  [headLen |-> h, framing |-> "length", len |-> n, sizes |-> <<>>, bad |-> 0,
   valid |-> TRUE, keep |-> TRUE]

Chunks(c) == [Plain(5, 0) EXCEPT !.framing = "chunked", !.sizes = c]

Unframed(n) == [Plain(5, n) EXCEPT !.framing = "none"]

Closing(r) == [r EXCEPT !.keep = FALSE]

(* Requests within the limits, the longest head that always is among them. *)
GoodWires ==
  WiresOf({Plain(MaxHeader + 1, 0), Plain(5, MaxBody), Chunks(<<1, 1>>), Unframed(0),
           Closing(Plain(5, 1)), Closing(Chunks(<<>>))})

(* And others: requests short enough for a read to reach beyond them, a head
   or a body that is too long, one the parser refuses, a size line without
   digits, a body without framing. *)
AllWires ==
  WiresOf({Plain(5, 1), Plain(5, MaxBody), Closing(Chunks(<<1>>)), Unframed(1),
           Plain(MaxHeader + 4, 0), Plain(5, MaxBody + 1), Chunks(<<1, MaxBody>>),
           [Plain(5, 0) EXCEPT !.valid = FALSE], [Chunks(<<1>>) EXCEPT !.bad = 2]})

ChunkedWires == WiresOf({Chunks(<<1>>)})

(* The clients that neither pipeline nor break are well-behaved. *)
ASSUME ClientsAssumption == Pipelining \/ Breaks \/ WellBehaved
=============================================================================

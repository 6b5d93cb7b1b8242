------------------------- MODULE RequestProperties -------------------------
(***************************************************************************)
(* What a parsed request says of the request that was sent.  The queries   *)
(* and forms that are tried are made from fields, or lists of parts, which *)
(* the parsers are to give back.                                           *)
(***************************************************************************)
EXTENDS HttpRequest

Parsed == stage \in {"parsed", "finished", "FailedParseForm", "RequestJsonParseFailed"}

KeptIn(k, i) == \E n \in DOMAIN headers[k] : headers[k][n] = i

(* Of the lines read, each one that names a header is in the value of exactly
   one header, its own unless it begins with a space; values are joined in the
   order of the lines, and nothing that was joined is dropped again. *)
HeaderLinesKept ==
  /\ \A i \in 1 .. pos : lines[i].key # NoColon =>
       \E k \in Keys : KeptIn(k, i) /\ (~lines[i].lead => k = lines[i].key)
  /\ \A k \in Keys : \A m, n \in DOMAIN headers[k] :
       m < n => headers[k][m] < headers[k][n]
  /\ \A k, l \in Keys : \A i \in 1 .. pos : KeptIn(k, i) /\ KeptIn(l, i) => k = l

(* A head is parsed only if it has less than MAX_LINE header lines, and then
   with all of them: the loop counts the end as a line.  max_header_lines of
   ServerConfig, "max number of header lines", limits nothing: no code reads it. *)
LineLimit ==
  /\ Parsed => Len(lines) < MAX_LINE /\ pos = Len(lines)
  /\ stage = "HttpRequestParseError" /\ header_count > 0 => Len(lines) >= MAX_LINE

(* However many connection headers there are, and in whatever order: where one
   of them says close the connection is not kept. *)
CloseObeyed ==
  Parsed /\ isKeepAlive =>
    \A i \in DOMAIN lines : ~(lines[i].key = "connection" /\ lines[i].value = "close" /\ ~lines[i].lead)

-----------------------------------------------------------------------------
(* Queries: fields [key, eq, value], where eq tells whether there is a "=". *)

(* Fields of tokens of T; a "=" in a key is escaped, and so is every "&". *)
Field(T) ==
  {f \in [key : Seq(T \ {"&", "="}), eq : BOOLEAN, value : Seq(T \ {"&"})] :
     f.eq \/ f.value = <<>>}

EncodeField(f) == f.key \o (IF f.eq THEN <<"=">> ELSE <<>>) \o f.value

EncodeFields(fs) ==
  FlattenSeq([i \in DOMAIN fs |-> (IF i > 1 THEN <<"&">> ELSE <<>>) \o EncodeField(fs[i])])

(* A last field of no characters at all is no field. *)
Meant(fs) ==
  LET n == Len(fs)
      given == IF n > 0 /\ EncodeField(fs[n]) = <<>> THEN n - 1 ELSE n
  IN  [i \in 1 .. given |-> <<url_decode(fs[i].key), url_decode(fs[i].value)>>]

(* A query, or an urlencoded form, yields the fields it was made from, in order
   and with repeated keys: an escaped "&" or "=" separates nothing, and neither
   does a second "=".  With an escape that has no digits there is no request. *)
QueryParsed ==
  /\ Parsed => from_url_params = Meant(start.fields)
  /\ stage = "finished" /\ form_body.kind = "urlencoded" => from_form = Meant(form_body.fields)
  /\ stage = "UrlDecodingError" =>
       \E s \in {start.query, TextAs("urlencoded")} : Undecodable(s)

-----------------------------------------------------------------------------
(* Multipart: parts [line, value], where line is what their header says. *)

(* The names and filenames in a line are of K, the tokens of a value of T; none
   of them is the delimiter. *)
NameTokens(K) == {Named(k) : k \in K} \cup {Filenamed(k) : k \in K}

Part(T, K) == [line : Seq(NameTokens(K)), value : Seq(T \ {Delim})]

EncodeParts(ps) ==
  FlattenSeq([i \in DOMAIN ps |->
    <<Delim, Crlf>> \o ps[i].line \o <<Crlf, Crlf>> \o ps[i].value \o <<Crlf>>])

(* What stands behind the last part, if the body is complete. *)
Closing(closed) == IF closed THEN <<Delim, Dashes, Crlf>> ELSE <<>>

(* The parts with a name, without the last one if no delimiter follows it. *)
NamedParts(body) ==
  LET n == IF body.closed THEN Len(body.parts) ELSE Len(body.parts) - 1
      pairs == [i \in 1 .. n |-> IF body.parts[i].line = <<>> THEN <<>>
                                ELSE <<<<body.parts[i].line[1][2], body.parts[i].value>>>>]
  IN  FlattenSeq(pairs)

(* With a content-type that ends in the boundary, a form has the parts of the
   body that were received up to the next delimiter, in order and byte by byte,
   whatever empty lines and dashes their values contain. *)
PartsParsed ==
  stage = "finished" /\ form_body.kind = "multipart"
    /\ Len(headers["content-type"]) = 1 /\ BoundaryKnown =>
      from_form = NamedParts(form_body)

-----------------------------------------------------------------------------
(* The queries and forms that are tried are made of fields of T; a form comes
   with a header that says it is one. *)
QueriesFrom(T) ==
  \A h \in Heads :
    /\ h.start.fields \in Seq(Field(T)) /\ h.start.query = EncodeFields(h.start.fields)
    /\ \A b \in Bodies[h] : b.kind = "urlencoded" =>
         /\ b.fields \in Seq(Field(T)) /\ b.text = EncodeFields(b.fields)
         /\ \E i \in DOMAIN h.lines : /\ h.lines[i].key = "content-type" /\ ~h.lines[i].lead
                                      /\ h.lines[i].value = "urlencoded"

(* The multipart bodies are made of parts of T and K. *)
PartsFrom(T, K) ==
  \A h \in Heads : \A b \in Bodies[h] : b.kind = "multipart" =>
    /\ b.parts \in Seq(Part(T, K)) /\ b.closed \in BOOLEAN
    /\ b.text = EncodeParts(b.parts) \o Closing(b.closed)

-----------------------------------------------------------------------------
(* JSON. *)

(* The values in an object that are no objects: the numbers of the members that
   lead to it, its dotted key, and the value. *)
Leaves(json) ==
  LET leaves[j \in JsonObjects] ==
        UNION {LET m == j.members[i] IN
               IF m.value.kind = "object"
               THEN {[path |-> <<i>> \o l.path, key |-> m.name \o l.key, value |-> l.value] :
                       l \in leaves[m.value]}
               ELSE {[path |-> <<i>>, key |-> m.name, value |-> m.value]} : i \in DOMAIN j.members}
  IN  leaves[json]

(* Every text of them: one of an atom, one for each item of an array. *)
Items(json) == UNION {{<<l, n>> : n \in DOMAIN MemberTexts(l.value)} : l \in Leaves(json)}

PairOf(item) == <<item[1].key, MemberTexts(item[1].value)[item[2]]>>

(* Every atom of a JSON object, however deep, and every item of its arrays, is
   in the form exactly once and under its dotted key, also when a name with a
   dot makes the keys of different members collide; nothing else is. *)
JsonFlattened ==
  stage = "finished" /\ form_body.kind = "json" /\ form_body.text.kind = "object"
    /\ Len(headers["content-type"]) = 1 /\ Mentions({"json"}) =>
      LET items == Items(form_body.text) IN
      \A p \in {PairOf(it) : it \in items} \cup {from_form[n] : n \in DOMAIN from_form} :
        Cardinality({n \in DOMAIN from_form : from_form[n] = p})
          = Cardinality({it \in items : PairOf(it) = p})

(* The bodies that say they are JSON are of Json, whose objects have members,
   and whose arrays have items, in a sequence; depth bounds their nesting. *)
JsonFrom(depth, D) ==
  /\ \A h \in Heads : \A b \in Bodies[h] : b.kind = "json" => b.text \in Json
  /\ \A j \in JsonObjects : j.members \in Seq([name : Seq(Names), value : Json])
  /\ \A j \in Json : j.kind = "array" => DOMAIN j.items = 1 .. Len(j.items) /\ Len(j.items) \in Nat
  /\ depth \in [JsonObjects -> 0 .. D]
  /\ \A j \in JsonObjects : \A i \in DOMAIN j.members :
       j.members[i].value.kind = "object" => depth[j.members[i].value] < depth[j]

-----------------------------------------------------------------------------
(* What a comment of the code says, and the code does not do. *)

(* http_request.cpp: "allow continuation lines that start with SP or TAB": a
   line that does belongs to the header of the line before it. *)
ContinuationsFolded ==
  Parsed =>
    \A i \in 2 .. Len(lines) :
      lines[i].lead /\ ~lines[i-1].lead /\ lines[i-1].key \in Keys \ {EmptyKey} =>
        KeptIn(lines[i-1].key, i)
=============================================================================

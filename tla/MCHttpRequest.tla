--------------------------- MODULE MCHttpRequest ---------------------------
(* Requests for TLC: each has one interesting part, its query, its header
   lines or its body. *)
EXTENDS RequestProperties

CONSTANTS MaxHeaderLines, MaxFields, MaxParts

MCKeys == {"connection", "content-type", ""}
MCValues == {"keep-alive", "close", "urlencoded", "multipart", "multipart;", "multipart?", "json"}

Fields ==
  [key : BoundedSeq({"x", "%26"}, 1), eq : {FALSE}, value : {<<>>}]
  \cup [key : BoundedSeq({"x", "%3D", "+"}, 1), eq : {TRUE},
        value : BoundedSeq({"y", "=", "%26"}, 2) \cup {<<"%zz">>}]

FieldLists == BoundedSeq(Fields, MaxFields)

StartWith(words, method, fs, version) ==
  [words |-> words, method |-> method, fields |-> fs, query |-> EncodeFields(fs),
   version |-> version]

Plain == StartWith(3, "GET", <<>>, "V1_1")

HeaderLineSet ==
  [lead : BOOLEAN, key : {"connection"}, value : {"keep-alive", "close"}]
  \cup [lead : BOOLEAN, key : {"content-type", "", NoColon}, value : {"json"}]

ContentType(v) == <<[lead |-> FALSE, key |-> "content-type", value |-> v]>>

LineHeads ==
  {[start |-> StartWith(3, "GET", <<>>, v), lines |-> ls] :
     v \in {"V1_0", "V1_1"}, ls \in BoundedSeq(HeaderLineSet, MaxHeaderLines)}

QueryHeads ==
  {[start |-> StartWith(w, m, fs, v), lines |-> <<>>] :
     w \in {3}, m \in {"GET"}, fs \in FieldLists, v \in {"V1_1"}}
  \cup {[start |-> StartWith(w, m, fs, v), lines |-> <<>>] :
     w \in {2, 3}, m \in {"GET", "UNKNOWN"}, v \in {"V1_1", "V_UNKNOWN"},
     fs \in {<<>>, <<[key |-> <<"x">>, eq |-> TRUE, value |-> <<"%zz">>]>>}}

FormHeads ==
  {[start |-> Plain, lines |-> ls] :
     ls \in {ContentType(v) : v \in MCValues}
            \cup {ContentType(v) \o ContentType(w) : v \in {"multipart", "json"}, w \in {"multipart", "multipart;", "urlencoded"}}}

MCHeads == LineHeads \cup QueryHeads \cup FormHeads

-----------------------------------------------------------------------------
UrlencodedBodies ==
  {[kind |-> "urlencoded", fields |-> fs, text |-> EncodeFields(fs)] : fs \in BoundedSeq(Fields, 1)}

Parts ==
  [line : {<<>>, <<Named("k")>>, <<Named("k"), Filenamed("f")>>},
   value : BoundedSeq({<<"text">>, Crlf, Dashes}, 2)]

PartsOf(ps, closed) ==
  [kind |-> "multipart", parts |-> ps, closed |-> closed,
   text |-> EncodeParts(ps) \o Closing(closed)]

MultipartBodies ==
  {PartsOf(ps, closed) : ps \in BoundedSeq(Parts, MaxParts) \ {<<>>}, closed \in BOOLEAN}

MCNames == {"a", "b"}
Atoms == {[kind |-> "null"], [kind |-> "atom", text |-> "x"]}
Arrays == {[kind |-> "array", items |-> s] :
             s \in BoundedSeq(Atoms, 2) \cup {<<[kind |-> "array", items |-> <<>>]>>}}
Object(ms) == [kind |-> "object", members |-> ms]
Member(n, v) == [name |-> n, value |-> v]
ObjectsOf(vs) ==
  {Object(<<>>)}
  \cup {Object(<<Member(n, v)>>) : n \in {<<"a">>, <<"a", "b">>, <<"b">>}, v \in vs}
  \cup {Object(<<Member(<<"a">>, v), Member(n, w)>>) : n \in {<<"a", "b">>, <<"b">>}, v \in vs, w \in vs}
Inner == ObjectsOf(Atoms)
MCJson == Atoms \cup Arrays \cup Inner \cup ObjectsOf(Atoms \cup Arrays \cup Inner)

JsonBodies == {[kind |-> "json", text |-> j] : j \in MCJson}

OtherBodies == {[kind |-> "other"]}

BodiesFor(h) ==
  LET said == {h.lines[i].value : i \in DOMAIN h.lines} IN
  IF h \notin FormHeads THEN OtherBodies
  ELSE IF "urlencoded" \in said THEN UrlencodedBodies
  ELSE IF said \cap {"multipart", "multipart;"} # {} THEN MultipartBodies
  ELSE IF "json" \in said THEN JsonBodies \cup OtherBodies
  ELSE OtherBodies

MCBodies == [h \in MCHeads |-> BodiesFor(h)]

(* The theorems about forms are about these requests too. *)
ASSUME FormsAssumption ==
  /\ QueriesFrom({"x", "y", "+", "=", "%26", "%3D", "%zz"})
  /\ PartsFrom({<<"text">>, Crlf, Dashes}, {"k", "f"})
  /\ JsonFrom([j \in JsonObjects |->
                 IF \E i \in DOMAIN j.members : j.members[i].value.kind = "object" THEN 1 ELSE 0], 1)
=============================================================================

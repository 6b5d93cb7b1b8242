----------------------------- MODULE FormParser -----------------------------
(***************************************************************************)
(* The parsers of queries and forms: url_decode, filled_params_query and   *)
(* parse_multipart_formdata of library/http/http_request.cpp, and          *)
(* json_to_multimap of library/http/json_helper/json_to_http.cpp.          *)
(*                                                                         *)
(* A text is a sequence of tokens.  A query_map_t is a sequence of pairs   *)
(* of a key and a value, in the order in which they were added: the values *)
(* of a key are those of its pairs.                                        *)
(***************************************************************************)
EXTENDS Naturals, SequencesExt

CONSTANTS
  Json,      (* JSON values, and all values in them                         *)
  Names      (* parts of names of members, none of them empty              *)

(* The positions from p on where s has t. *)
Find(s, t, p) == {i \in p .. Len(s) : s[i] = t}

-----------------------------------------------------------------------------
(* Queries.  Tokens: "&", "=", "+", the escapes "%26" and "%3D", "%zz" for an
   escape without digits, and text. *)

Decoded(t) == CASE t = "+" -> " " [] t = "%26" -> "&" [] t = "%3D" -> "=" [] OTHER -> t

url_decode(s) == [i \in DOMAIN s |-> Decoded(s[i])]

Undecodable(s) == Find(s, "%zz", 1) # {}

(* Seeded fault: "equal_splits < end" is forgotten. *)
SplitPairAnywhere(src, position, end) ==
  LET eq == Find(src, "=", position) IN
  IF eq # {}
  THEN <<SubSeq(src, position, Min(eq) - 1), SubSeq(src, Min(eq) + 1, end - 1)>>
  ELSE <<SubSeq(src, position, end - 1), <<>>>>

(* The key and the value of the pair from position up to end. *)
SplitPair(src, position, end) ==
  LET eq == Find(src, "=", position) IN
  IF eq # {} /\ Min(eq) < end
  THEN <<SubSeq(src, position, Min(eq) - 1), SubSeq(src, Min(eq) + 1, end - 1)>>
  ELSE <<SubSeq(src, position, end - 1), <<>>>>

(* What it returns unless some part is Undecodable, when it throws. *)
filled_params_query(src) ==
  LET from[position \in 1 .. Len(src) + 1] ==
        LET amp == Find(src, "&", position)
            end == IF amp = {} THEN Len(src) + 1 ELSE Min(amp)
            pair == SplitPair(src, position, end)
        IN  IF position > Len(src) THEN <<>>
            ELSE <<<<url_decode(pair[1]), url_decode(pair[2])>>>>
                 \o IF amp = {} THEN <<>> ELSE from[end + 1]
  IN  from[1]

-----------------------------------------------------------------------------
(* Multipart bodies.  Tokens: the delimiter, that is "--" and the boundary;
   "--"; CR LF; name="k" and filename="k" in a line; and text. *)

Delim  == <<"delimiter">>
Dashes == <<"--">>
Crlf   == <<"crlf">>
Named(k) == <<"name", k>>
Filenamed(k) == <<"filename", k>>

(* find("name=\"") stops at a filename as well. *)
NameIn(part_headers) ==
  LET at == {i \in DOMAIN part_headers : part_headers[i][1] \in {"name", "filename"}} IN
  IF at = {} THEN <<>> ELSE <<part_headers[Min(at)][2]>>

(* Seeded fault: the CR LF before the delimiter stays. *)
PartBodyWithEnd(s) == s

PartBody(s) ==
  IF s # <<>> /\ s[Len(s)] = Crlf THEN SubSeq(s, 1, Len(s) - 1) ELSE s

(* The pair of a part, if it has an empty line and a name. *)
PairOfPart(part) ==
  LET sep == {i \in 1 .. Len(part) - 1 : part[i] = Crlf /\ part[i + 1] = Crlf}
      name == NameIn(SubSeq(part, 1, Min(sep) - 1))
  IN  IF sep = {} \/ name = <<>> THEN <<>>
      ELSE <<<<name[1], PartBody(SubSeq(part, Min(sep) + 2, Len(part)))>>>>

parse_multipart_formdata(body) ==
  LET from[pos \in 1 .. Len(body) + 1] ==
        LET delims == Find(body, Delim, pos)
            first  == Min(delims) + 1
            start  == IF first \in Find(body, Crlf, first) THEN first + 1 ELSE first
            ends   == Find(body, Delim, start)
        IN  IF delims = {} \/ first \in Find(body, Dashes, first) \/ ends = {} THEN <<>>
            ELSE PairOfPart(SubSeq(body, start, Min(ends) - 1)) \o from[Min(ends)]
  IN  from[1]

-----------------------------------------------------------------------------
(* JSON.  A value is an object with members, in the order of their names, an
   array with items, an atom with its text, or null.  The name of a member is
   the sequence of its parts between dots, so is a key. *)

JsonObjects == {j \in Json : j.kind = "object"}

IsComplex(j) == j.kind \in {"object", "array"}

AtomText(j) == IF j.kind = "null" THEN "" ELSE j.text

(* The value of a member that is no object: one text, or one for each item. *)
MemberTexts(j) ==
  IF j.kind = "array"
  THEN [i \in DOMAIN j.items |->
          IF IsComplex(j.items[i]) THEN "dump" ELSE AtomText(j.items[i])]
  ELSE <<AtomText(j)>>

Keyed(key, texts) == [i \in DOMAIN texts |-> <<key, texts[i]>>]

(* Outside of objects there is no key but an index, and null is spelt out. *)
Spelt(j) == IF IsComplex(j) THEN "dump" ELSE IF j.kind = "null" THEN "null" ELSE j.text

(* Seeded fault: the prefix is not passed on. *)
MakeKeyFlat(prefix, name) == name

MakeKey(prefix, name) == prefix \o name

json_to_multimap(json) ==
  LET object[j \in JsonObjects] ==
        [prefix \in Seq(Names) |->
          FlattenSeq([i \in DOMAIN j.members |->
            LET key == MakeKey(prefix, j.members[i].name)
                val == j.members[i].value
            IN  IF val.kind = "object" THEN object[val][key] ELSE Keyed(key, MemberTexts(val))])]
  IN  CASE json.kind = "object" -> object[json][<<>>]
        [] json.kind = "array" ->
             [i \in DOMAIN json.items |-> <<<<ToString(i - 1)>>, Spelt(json.items[i])>>]
        [] OTHER -> <<<<<<>>, Spelt(json)>>>>
=============================================================================

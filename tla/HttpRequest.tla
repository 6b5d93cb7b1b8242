---------------------------- MODULE HttpRequest ----------------------------
(***************************************************************************)
(* Request of library/http/http_request.{h,cpp}: the constructor, which    *)
(* parses the start line, its query and the header lines, and              *)
(* consume_form_body, which the program may call with the body.            *)
(***************************************************************************)
EXTENDS RequestHead, FormParser

CONSTANTS
  Heads,     (* the start lines and headers that are tried                  *)
  Bodies     (* a set of bodies for each of them                            *)

ASSUME RequestAssumption ==
  /\ {"connection", "content-type"} \subseteq Keys
  /\ \A h \in Heads : h.lines \in Seq(Line)

VARIABLES
  start,     (* the start line: [words, method, query, version]             *)
  form_body, (* the argument of consume_form_body                           *)
  stage,     (* what is next, or the exception that was thrown              *)
  from_url_params,
  from_form,
  isKeepAlive

requestVars == <<headVars, start, form_body, stage, from_url_params, from_form, isKeepAlive>>

RequestTypeOK ==
  /\ HeadTypeOK
  /\ stage \in {"start", "headers", "parsed", "finished", "HttpRequestParseError",
                "UrlDecodingError", "FailedParseForm", "RequestJsonParseFailed"}
  /\ isKeepAlive \in BOOLEAN
  /\ stage \in {"parsed", "finished"} => pos = Len(lines)

RequestInit ==
  /\ \E h \in Heads :
       /\ start = h.start
       /\ lines = h.lines
       /\ form_body \in Bodies[h]
  /\ HeadInit
  /\ stage = "start"
  /\ from_url_params = <<>> /\ from_form = <<>>
  /\ isKeepAlive = TRUE

(* The start line, whose query is parsed before its version. *)
StartLine ==
  /\ stage = "start"
  /\ stage' = CASE start.words < 3 \/ start.method = "UNKNOWN" -> "HttpRequestParseError"
                [] Undecodable(start.query) -> "UrlDecodingError"
                [] start.version = "V_UNKNOWN" -> "HttpRequestParseError"
                [] OTHER -> "headers"
  /\ from_url_params' = IF stage' = "headers" THEN filled_params_query(start.query) ELSE <<>>
  /\ UNCHANGED <<headVars, start, form_body, from_form, isKeepAlive>>

HeaderLines ==
  /\ stage = "headers" /\ HeadStep
  /\ UNCHANGED <<start, form_body, stage, from_url_params, from_form, isKeepAlive>>

ValuesOf(k) == [i \in DOMAIN headers[k] |-> lines[headers[k][i]].value]

(* Seeded fault: it is enough that keep-alive is one of the options. *)
KeepAliveIfAny ==
  IF headers["connection"] = <<>> THEN start.version # "V1_0"
  ELSE \E i \in DOMAIN ValuesOf("connection") : ValuesOf("connection")[i] = "keep-alive"

(* The value of the header, if there is one, is this one word. *)
KeepAlive ==
  IF headers["connection"] = <<>> THEN start.version # "V1_0"
  ELSE ValuesOf("connection") = <<"keep-alive">>

HeadersEnd ==
  /\ stage = "headers" /\ LoopEnds
  /\ IF header_count' > MAX_LINE
     THEN stage' = "HttpRequestParseError" /\ UNCHANGED isKeepAlive
     ELSE stage' = "parsed" /\ isKeepAlive' = KeepAlive
  /\ UNCHANGED <<start, form_body, from_url_params, from_form>>

-----------------------------------------------------------------------------
(* consume_form_body.  A content-type names a kind of body; "multipart" is one
   with a boundary at its end, "multipart;" one with more behind it, and
   "multipart?" one without. *)

Mentions(kinds) == \E i \in DOMAIN headers["content-type"] : ValuesOf("content-type")[i] \in kinds

Bounded == {"multipart", "multipart;"}

(* The boundary is all that follows "boundary=" in the joined header. *)
BoundaryKnown ==
  LET v == ValuesOf("content-type") IN
  /\ v[Len(v)] = "multipart"
  /\ \A i \in 1 .. Len(v) - 1 : v[i] \notin Bounded

(* form_body: [kind, text], where the text of a kind is what its parser reads.
   A body of another kind has no delimiter and is no JSON; that of a header
   that mentions urlencoded is urlencoded. *)
TextAs(kind) == IF form_body.kind = kind THEN form_body.text ELSE <<>>

FormAs(parsed) == from_form' = parsed /\ stage' = "finished"

Refused(exception) == stage' = exception /\ UNCHANGED from_form

consume_form_body ==
  /\ stage = "parsed"
  /\ CASE Mentions({"urlencoded"}) ->
            IF Undecodable(TextAs("urlencoded")) THEN Refused("UrlDecodingError")
            ELSE FormAs(filled_params_query(TextAs("urlencoded")))
       [] ~Mentions({"urlencoded"}) /\ Mentions(Bounded \cup {"multipart?"}) ->
            IF ~Mentions(Bounded) THEN Refused("FailedParseForm")
            ELSE FormAs(IF BoundaryKnown THEN parse_multipart_formdata(TextAs("multipart")) ELSE <<>>)
       [] ~Mentions({"urlencoded", "multipart?"} \cup Bounded) /\ Mentions({"json"}) ->
            IF form_body.kind # "json" THEN Refused("RequestJsonParseFailed")
            ELSE FormAs(json_to_multimap(form_body.text))
       [] OTHER -> FormAs(from_form)
  /\ UNCHANGED <<headVars, start, form_body, from_url_params, isKeepAlive>>

RequestNext == StartLine \/ HeaderLines \/ HeadersEnd \/ consume_form_body

RequestSpec == RequestInit /\ [][RequestNext]_requestVars
=============================================================================

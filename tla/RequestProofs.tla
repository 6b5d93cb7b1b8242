--------------------------- MODULE RequestProofs ---------------------------
(***************************************************************************)
(* For every head, of any number of lines: no header line is lost,         *)
(* reordered or stored twice, and the limit on lines holds.  The loop      *)
(* keeps the stronger fact that what is joined are lines already read.     *)
(***************************************************************************)
EXTENDS RequestProperties, TLAPS

(* Only lines that were read are in a header. *)
JoinedAreRead == \A k \in Keys : \A n \in DOMAIN headers[k] : headers[k][n] <= pos

HeadInv == HeadTypeOK /\ JoinedAreRead /\ HeaderLinesKept

LEMMA RequestInitInv == RequestInit => HeadInv
<1> SUFFICES ASSUME RequestInit PROVE HeadInv
  OBVIOUS
<1>1. lines \in Seq(Line)
  BY RequestAssumption DEF RequestInit
<1>2. pos = 0 /\ headers = [k \in Keys |-> <<>>] /\ last_key = EmptyKey /\ header_count = 0
  BY DEF RequestInit, HeadInit
<1>3. HeadTypeOK
  <2>1. Len(lines) \in Nat /\ 0 \in 0 .. Len(lines) /\ 0 \in 0 .. MAX_LINE + 1
    BY <1>1, HeadAssumption
  <2>2. <<>> \in Seq(1 .. Len(lines))
    OBVIOUS
  <2>3. headers \in [Keys -> Seq(1 .. Len(lines))]
    BY <1>2, <2>2
  <2> QED BY <1>1, <1>2, <2>1, <2>3 DEF HeadTypeOK
<1>4. \A k \in Keys : DOMAIN headers[k] = {}
  <2>1. Len(<<>>) = 0 /\ DOMAIN <<>> = 1 .. Len(<<>>) /\ 1 .. 0 = {}
    OBVIOUS
  <2> QED BY <1>2, <2>1
<1> QED BY <1>2, <1>3, <1>4 DEF HeadInv, JoinedAreRead, HeaderLinesKept, KeptIn

(* What the append of the line that was just read does to one header. *)
LEMMA Joining ==
  ASSUME HeadInv, NextLine, NEW k \in Keys, JoinLine(k)
  PROVE  /\ headers' \in [Keys -> Seq(1 .. Len(lines))]
         /\ \A l \in Keys \ {k} : headers'[l] = headers[l]
         /\ DOMAIN headers'[k] = DOMAIN headers[k] \cup {Len(headers[k]) + 1}
         /\ \A n \in DOMAIN headers[k] : headers'[k][n] = headers[k][n]
         /\ headers'[k][Len(headers[k]) + 1] = pos + 1
         /\ Len(headers[k]) \in Nat /\ DOMAIN headers[k] = 1 .. Len(headers[k])
<1>1. headers \in [Keys -> Seq(1 .. Len(lines))] /\ lines \in Seq(Line) /\ pos \in 0 .. Len(lines)
  BY DEF HeadInv, HeadTypeOK
<1>2. Len(lines) \in Nat /\ pos + 1 \in 1 .. Len(lines)
  BY <1>1 DEF NextLine
<1>3. headers[k] \in Seq(1 .. Len(lines))
  BY <1>1
<1>4. headers'[k] = Append(headers[k], pos + 1) /\ \A l \in Keys \ {k} : headers'[l] = headers[l]
  BY <1>1 DEF JoinLine
<1>5. Append(headers[k], pos + 1) \in Seq(1 .. Len(lines))
  BY <1>2, <1>3
<1>6. headers' \in [Keys -> Seq(1 .. Len(lines))]
  BY <1>1, <1>5 DEF JoinLine
<1> QED BY <1>3, <1>4, <1>6

(* The line that was read is joined to one header, its own if it has to be. *)
LEMMA JoinKeeps ==
  ASSUME HeadInv, NextLine, NEW k \in Keys, JoinLine(k),
         lines[pos + 1].lead \/ k = lines[pos + 1].key,
         last_key' \in Keys \cup {EmptyKey}
  PROVE  HeadInv'
<1>0. /\ headers' \in [Keys -> Seq(1 .. Len(lines))]
      /\ \A l \in Keys \ {k} : headers'[l] = headers[l]
      /\ DOMAIN headers'[k] = DOMAIN headers[k] \cup {Len(headers[k]) + 1}
      /\ \A n \in DOMAIN headers[k] : headers'[k][n] = headers[k][n]
      /\ headers'[k][Len(headers[k]) + 1] = pos + 1
      /\ Len(headers[k]) \in Nat /\ DOMAIN headers[k] = 1 .. Len(headers[k])
  BY Joining
<1>1. pos \in Nat /\ pos' = pos + 1 /\ lines' = lines /\ pos < Len(lines) /\ Len(lines) \in Nat
  BY DEF HeadInv, HeadTypeOK, NextLine
<1>2. HeadTypeOK'
  <2>1. header_count' \in 0 .. MAX_LINE + 1
    BY HeadAssumption DEF HeadInv, HeadTypeOK, NextLine
  <2> QED BY <1>0, <1>1, <2>1 DEF HeadInv, HeadTypeOK
<1>3. \A l \in Keys : \A n \in DOMAIN headers[l] :
        headers[l][n] \in Nat /\ headers[l][n] <= pos
  BY DEF HeadInv, JoinedAreRead, HeadTypeOK
<1>12. \A a, b \in Nat : a <= b => a <= b + 1 /\ a < b + 1 /\ a # b + 1
  OBVIOUS
<1>13. \A l \in Keys : \A n \in DOMAIN headers[l] :
         headers[l][n] <= pos + 1 /\ headers[l][n] < pos + 1 /\ headers[l][n] # pos + 1
  BY <1>1, <1>3, <1>12, Zenon
<1>14. pos + 1 <= pos + 1 /\ \A i \in 1 .. pos : i # pos + 1
  BY <1>1
<1>4. JoinedAreRead'
  <2> SUFFICES ASSUME NEW l \in Keys, NEW n \in DOMAIN headers'[l] PROVE headers'[l][n] <= pos + 1
    BY <1>1 DEF JoinedAreRead
  <2>1. CASE l # k
    BY <1>0, <1>13, <2>1, Zenon
  <2>2. CASE l = k
    <3>1. n \in DOMAIN headers[k] \/ n = Len(headers[k]) + 1
      BY <1>0, <2>2
    <3>2. CASE n \in DOMAIN headers[k]
      <4>1. headers'[k][n] = headers[k][n]
        BY <1>0, <3>2
      <4>2. headers[k][n] <= pos + 1
        BY <1>13, <3>2
      <4> QED BY <2>2, <4>1, <4>2, Zenon
    <3>3. CASE n = Len(headers[k]) + 1
      <4>1. headers'[k][n] = pos + 1
        BY <1>0, <3>3
      <4> QED BY <1>14, <2>2, <4>1, Zenon
    <3> QED BY <3>1, <3>2, <3>3
  <2> QED BY <2>1, <2>2
<1>5. \A l \in Keys : \A i \in 1 .. pos : KeptIn(l, i)' <=> KeptIn(l, i)
  <2> SUFFICES ASSUME NEW l \in Keys, NEW i \in 1 .. pos
               PROVE (\E n \in DOMAIN headers'[l] : headers'[l][n] = i)
                       <=> (\E n \in DOMAIN headers[l] : headers[l][n] = i)
    BY DEF KeptIn
  <2>1. i # pos + 1
    BY <1>1
  <2>2. CASE l = k
    BY <1>0, <2>1, <2>2
  <2> QED BY <1>0, <2>2
<1>6. \A l \in Keys : \A i : i = pos + 1 => (KeptIn(l, i)' <=> l = k)
  <2> SUFFICES ASSUME NEW l \in Keys, NEW i, i = pos + 1 PROVE KeptIn(l, i)' <=> l = k
    OBVIOUS
  <2>1. CASE l = k
    BY <1>0, <2>1 DEF KeptIn
  <2>2. CASE l # k
    BY <1>0, <1>13, <2>2, Zenon DEF KeptIn
  <2> QED BY <2>1, <2>2
<1>7. \A i \in 1 .. pos' : i \in 1 .. pos \/ i = pos + 1
  BY <1>1
<1>8. \A i \in 1 .. pos' : lines'[i].key # NoColon =>
        \E l \in Keys : KeptIn(l, i)' /\ (~lines'[i].lead => l = lines'[i].key)
  <2> SUFFICES ASSUME NEW i \in 1 .. pos', lines[i].key # NoColon
               PROVE  \E l \in Keys : KeptIn(l, i)' /\ (~lines[i].lead => l = lines[i].key)
    BY <1>1
  <2>1. CASE i \in 1 .. pos
    <3>1. PICK l \in Keys : KeptIn(l, i) /\ (~lines[i].lead => l = lines[i].key)
      BY <2>1 DEF HeadInv, HeaderLinesKept
    <3> QED BY <1>5, <2>1, <3>1, Zenon
  <2>2. CASE i = pos + 1
    BY <1>6, <2>2
  <2> QED BY <1>7, <2>1, <2>2
<1>9. \A l, m \in Keys : \A i \in 1 .. pos' : KeptIn(l, i)' /\ KeptIn(m, i)' => l = m
  <2> SUFFICES ASSUME NEW l \in Keys, NEW m \in Keys, NEW i \in 1 .. pos',
                      KeptIn(l, i)', KeptIn(m, i)'
               PROVE  l = m
    OBVIOUS
  <2>1. CASE i \in 1 .. pos
    <3>1. KeptIn(l, i) /\ KeptIn(m, i)
      BY <1>5, <2>1, Zenon
    <3> QED BY <2>1, <3>1 DEF HeadInv, HeaderLinesKept
  <2>2. CASE i = pos + 1
    BY <1>6, <2>2, Zenon
  <2> QED BY <1>7, <2>1, <2>2
<1>10. \A l \in Keys : \A m, n \in DOMAIN headers'[l] : m < n => headers'[l][m] < headers'[l][n]
  <2> SUFFICES ASSUME NEW l \in Keys, NEW m \in DOMAIN headers'[l], NEW n \in DOMAIN headers'[l],
                      m < n
               PROVE  headers'[l][m] < headers'[l][n]
    OBVIOUS
  <2>1. CASE l # k
    BY <1>0, <2>1 DEF HeadInv, HeaderLinesKept
  <2>2. CASE l = k /\ n \in DOMAIN headers[k]
    <3>1. m \in DOMAIN headers[k]
      BY <1>0, <2>2
    <3> QED BY <1>0, <2>2, <3>1 DEF HeadInv, HeaderLinesKept
  <2>3. CASE l = k /\ n = Len(headers[k]) + 1
    <3>1. m \in DOMAIN headers[k]
      BY <1>0, <2>3
    <3> QED BY <1>0, <1>13, <2>3, <3>1, Zenon
  <2> QED BY <1>0, <2>1, <2>2, <2>3
<1>11. HeaderLinesKept'
  BY <1>8, <1>9, <1>10 DEF HeaderLinesKept
<1> QED BY <1>2, <1>4, <1>11 DEF HeadInv

(* A line that is ignored has no colon. *)
LEMMA MalformedKeeps == HeadInv /\ Malformed => HeadInv'
<1> SUFFICES ASSUME HeadInv, Malformed PROVE HeadInv'
  OBVIOUS
<1>1. /\ pos \in Nat /\ pos' = pos + 1 /\ lines' = lines /\ pos < Len(lines) /\ Len(lines) \in Nat
      /\ headers' = headers /\ last_key' = last_key /\ lines[pos + 1].key = NoColon
  BY DEF HeadInv, HeadTypeOK, Malformed, NextLine
<1>2. header_count' \in 0 .. MAX_LINE + 1
  BY HeadAssumption DEF HeadInv, HeadTypeOK, Malformed, NextLine
<1>3. HeadTypeOK'
  BY <1>1, <1>2 DEF HeadInv, HeadTypeOK
<1>4. \A l \in Keys : \A n \in DOMAIN headers[l] : headers[l][n] \in Nat /\ headers[l][n] <= pos
  BY DEF HeadInv, JoinedAreRead, HeadTypeOK
<1>5. \A a, b \in Nat : a <= b => a <= b + 1 /\ a # b + 1
  OBVIOUS
<1>6. JoinedAreRead'
  BY <1>1, <1>4, <1>5 DEF JoinedAreRead
<1>7. \A i \in 1 .. pos' : i \in 1 .. pos \/ i = pos + 1
  BY <1>1
<1>8. \A l \in Keys : ~KeptIn(l, pos + 1)
  BY <1>1, <1>4, <1>5 DEF KeptIn
<1>9. \A l \in Keys : \A i : KeptIn(l, i)' <=> KeptIn(l, i)
  BY <1>1 DEF KeptIn
<1>10. HeaderLinesKept'
  <2>1. \A i \in 1 .. pos' : lines'[i].key # NoColon =>
          \E l \in Keys : KeptIn(l, i)' /\ (~lines'[i].lead => l = lines'[i].key)
    BY <1>1, <1>7, <1>9 DEF HeadInv, HeaderLinesKept
  <2>2. \A l, m \in Keys : \A i \in 1 .. pos' : KeptIn(l, i)' /\ KeptIn(m, i)' => l = m
    BY <1>7, <1>8, <1>9 DEF HeadInv, HeaderLinesKept
  <2>3. \A l \in Keys : \A m, n \in DOMAIN headers'[l] : m < n => headers'[l][m] < headers'[l][n]
    BY <1>1 DEF HeadInv, HeaderLinesKept
  <2> QED BY <2>1, <2>2, <2>3 DEF HeaderLinesKept
<1> QED BY <1>3, <1>6, <1>10 DEF HeadInv

LEMMA HeadStepKeeps == HeadInv /\ HeadStep => HeadInv'
<1> SUFFICES ASSUME HeadInv, HeadStep PROVE HeadInv'
  OBVIOUS
<1>1. lines \in Seq(Line) /\ last_key \in Keys \cup {EmptyKey} /\ pos \in Nat
  BY DEF HeadInv, HeadTypeOK
<1>2. CASE Continuation
  <2>1. last_key \in Keys /\ lines[pos + 1].lead
    BY <1>1, <1>2 DEF Continuation, Continues
  <2> QED BY <1>1, <1>2, <2>1, JoinKeeps DEF Continuation
<1>3. CASE Malformed
  BY <1>3, MalformedKeeps
<1>4. CASE HeaderLine
  <2>1. pos + 1 \in 1 .. Len(lines)
    BY <1>1, <1>4 DEF HeaderLine, NextLine
  <2>2. lines[pos + 1] \in Line
    BY <1>1, <2>1
  <2>3. lines[pos + 1].key \in Keys
    BY <1>4, <2>2 DEF HeaderLine, Line
  <2> QED BY <1>4, <2>3, JoinKeeps DEF HeaderLine
<1> QED BY <1>2, <1>3, <1>4 DEF HeadStep

LEMMA HeadUnchanged ==
  HeadInv /\ UNCHANGED <<lines, pos, headers, last_key>> /\ header_count' \in 0 .. MAX_LINE + 1
    => HeadInv'
BY DEF HeadInv, HeadTypeOK, JoinedAreRead, HeaderLinesKept, KeptIn

LEMMA RequestNextInv == HeadInv /\ [RequestNext]_requestVars => HeadInv'
<1> SUFFICES ASSUME HeadInv, [RequestNext]_requestVars PROVE HeadInv'
  OBVIOUS
<1>1. CASE HeaderLines
  BY <1>1, HeadStepKeeps DEF HeaderLines
<1>2. CASE HeadersEnd
  <2>1. header_count' \in 0 .. MAX_LINE + 1
    BY <1>2, HeadAssumption DEF HeadersEnd, LoopEnds, HeadInv, HeadTypeOK
  <2> QED BY <1>2, <2>1, HeadUnchanged DEF HeadersEnd, LoopEnds
<1>3. CASE StartLine \/ consume_form_body \/ UNCHANGED requestVars
  <2>1. UNCHANGED headVars
    BY <1>3 DEF StartLine, consume_form_body, requestVars
  <2>2. header_count' \in 0 .. MAX_LINE + 1
    BY <2>1 DEF headVars, HeadInv, HeadTypeOK
  <2> QED BY <2>1, <2>2, HeadUnchanged DEF headVars
<1> QED BY <1>1, <1>2, <1>3 DEF RequestNext

LEMMA HeadInvariant == RequestSpec => []HeadInv
BY RequestInitInv, RequestNextInv, PTL DEF RequestSpec

(* Each line that names a header is in one header, its own unless it begins
   with a space, and the lines of a header are in their order. *)
THEOREM NoLineLost == RequestSpec => []HeaderLinesKept
BY HeadInvariant, PTL DEF HeadInv

-----------------------------------------------------------------------------
(* What the stages say of the loop: it counts the lines it has read, and one
   more at the end, which is where isKeepAlive is decided. *)
StageInv ==
  /\ stage \in {"start", "headers"} => header_count = pos
  /\ stage = "start" => header_count = 0
  /\ Parsed => /\ pos = Len(lines) /\ header_count = pos + 1 /\ header_count <= MAX_LINE
               /\ isKeepAlive => KeepAlive
  /\ stage = "HttpRequestParseError" => header_count = 0 \/ Len(lines) >= MAX_LINE

LEMMA StageInit == RequestInit => StageInv
BY DEF RequestInit, HeadInit, StageInv, Parsed

LEMMA StageNext == HeadInv /\ StageInv /\ [RequestNext]_requestVars => StageInv'
<1> SUFFICES ASSUME HeadInv, StageInv, [RequestNext]_requestVars PROVE StageInv'
  OBVIOUS
<1>1. /\ pos \in Nat /\ Len(lines) \in Nat /\ pos <= Len(lines)
      /\ header_count \in Nat /\ MAX_LINE \in Nat
  BY HeadAssumption DEF HeadInv, HeadTypeOK
<1>2. CASE StartLine
  <2>1. header_count = 0 /\ pos = 0 /\ UNCHANGED <<lines, pos, header_count>>
    BY <1>2 DEF StartLine, headVars, StageInv
  <2>2. stage' \in {"HttpRequestParseError", "UrlDecodingError", "headers"}
    BY <1>2 DEF StartLine
  <2> QED BY <2>1, <2>2 DEF StageInv, Parsed
<1>3. CASE HeaderLines
  <2>1. stage = "headers" /\ stage' = stage
    BY <1>3 DEF HeaderLines
  <2>2. header_count' = header_count + 1 /\ pos' = pos + 1
    BY <1>3 DEF HeaderLines, HeadStep, Continuation, Malformed, HeaderLine, NextLine
  <2> QED BY <2>1, <2>2 DEF StageInv, Parsed
<1>4. CASE HeadersEnd
  <2>1. header_count = pos /\ UNCHANGED <<lines, pos, headers, start>>
    BY <1>4 DEF HeadersEnd, LoopEnds, StageInv
  <2>2. CASE header_count' > MAX_LINE
    <3>1. stage' = "HttpRequestParseError"
      BY <1>4, <2>2 DEF HeadersEnd
    <3>2. header_count > MAX_LINE \/ (header_count' = pos + 1 /\ pos = Len(lines))
      BY <1>4, <2>1 DEF HeadersEnd, LoopEnds
    <3>3. Len(lines) >= MAX_LINE
      BY <1>1, <2>1, <2>2, <3>2
    <3> QED BY <2>1, <3>1, <3>3 DEF StageInv, Parsed
  <2>3. CASE ~(header_count' > MAX_LINE)
    <3>1. stage' = "parsed" /\ isKeepAlive' = KeepAlive
      BY <1>4, <2>3 DEF HeadersEnd
    <3>2. header_count' = pos + 1 /\ pos = Len(lines)
      BY <1>4, <2>1, <2>3 DEF HeadersEnd, LoopEnds
    <3>3. header_count' <= MAX_LINE
      BY <1>1, <2>3, <3>2
    <3>4. KeepAlive' = KeepAlive
      BY <2>1 DEF KeepAlive, ValuesOf
    <3> QED BY <2>1, <3>1, <3>2, <3>3, <3>4 DEF StageInv, Parsed
  <2> QED BY <2>2, <2>3
<1>5. CASE consume_form_body
  <2>1. stage = "parsed" /\ UNCHANGED <<lines, pos, headers, header_count, start, isKeepAlive>>
    BY <1>5 DEF consume_form_body, headVars
  <2>2. stage' \in {"finished", "UrlDecodingError", "FailedParseForm", "RequestJsonParseFailed"}
    BY <1>5 DEF consume_form_body, Refused, FormAs
  <2>3. KeepAlive' = KeepAlive
    BY <2>1 DEF KeepAlive, ValuesOf
  <2> QED BY <2>1, <2>2, <2>3 DEF StageInv, Parsed
<1>6. CASE UNCHANGED requestVars
  <2>1. KeepAlive' = KeepAlive
    BY <1>6 DEF requestVars, headVars, KeepAlive, ValuesOf
  <2> QED BY <1>6, <2>1 DEF requestVars, headVars, StageInv, Parsed
<1> QED BY <1>2, <1>3, <1>4, <1>5, <1>6 DEF RequestNext

LEMMA StageInvariant == RequestSpec => [](HeadInv /\ StageInv)
BY RequestInitInv, StageInit, RequestNextInv, StageNext, PTL DEF RequestSpec

(* Every variable of a request keeps its type, and a parsed head was read to its
   end. *)
THEOREM RequestTypeCorrect == RequestSpec => []RequestTypeOK
<1> DEFINE Typed ==
      /\ stage \in {"start", "headers", "parsed", "finished", "HttpRequestParseError",
                    "UrlDecodingError", "FailedParseForm", "RequestJsonParseFailed"}
      /\ isKeepAlive \in BOOLEAN
<1>1. RequestInit => Typed
  BY DEF RequestInit
<1>2. Typed /\ [RequestNext]_requestVars => Typed'
  <2> SUFFICES ASSUME Typed, [RequestNext]_requestVars PROVE Typed'
    OBVIOUS
  <2>1. CASE StartLine
    BY <2>1 DEF StartLine
  <2>2. CASE HeaderLines
    BY <2>2 DEF HeaderLines
  <2>3. CASE HeadersEnd
    <3>1. KeepAlive \in BOOLEAN
      BY DEF KeepAlive
    <3> QED BY <2>3, <3>1 DEF HeadersEnd
  <2>4. CASE consume_form_body
    BY <2>4 DEF consume_form_body, Refused, FormAs
  <2>5. CASE UNCHANGED requestVars
    BY <2>5 DEF requestVars
  <2> QED BY <2>1, <2>2, <2>3, <2>4, <2>5 DEF RequestNext
<1>3. HeadInv /\ StageInv /\ Typed => RequestTypeOK
  BY DEF HeadInv, StageInv, RequestTypeOK, Parsed
<1> QED BY <1>1, <1>2, <1>3, StageInvariant, PTL DEF RequestSpec

(* A head with MAX_LINE header lines is rejected, one with less of them is
   read to its end, whatever max_header_lines says. *)
THEOREM LinesLimited == RequestSpec => []LineLimit
<1>1. HeadInv /\ StageInv => LineLimit
  <2> SUFFICES ASSUME HeadInv, StageInv PROVE LineLimit
    OBVIOUS
  <2>1. pos \in Nat /\ Len(lines) \in Nat /\ header_count \in Nat /\ MAX_LINE \in Nat
    BY HeadAssumption DEF HeadInv, HeadTypeOK
  <2> QED BY <2>1 DEF StageInv, LineLimit
<1> QED BY <1>1, StageInvariant, PTL

(* A line that says close ends the connection, however many other lines there
   are: none is lost, and the joined value is not the word keep-alive. *)
THEOREM CloseIsObeyed == RequestSpec => []CloseObeyed
<1>1. HeadInv /\ StageInv => CloseObeyed
  <2> SUFFICES ASSUME HeadInv, StageInv, Parsed, isKeepAlive, NEW i \in DOMAIN lines,
                      lines[i].key = "connection", lines[i].value = "close", ~lines[i].lead
               PROVE  FALSE
    BY DEF CloseObeyed
  <2>1. lines \in Seq(Line) /\ pos = Len(lines) /\ KeepAlive
    BY DEF HeadInv, HeadTypeOK, StageInv
  <2>2. i \in 1 .. pos
    BY <2>1
  <2>3. "connection" \in Keys /\ NoColon # "connection"
    BY RequestAssumption, HeadAssumption
  <2>4. KeptIn("connection", i)
    BY <2>2, <2>3 DEF HeadInv, HeaderLinesKept
  <2>5. PICK n \in DOMAIN headers["connection"] : headers["connection"][n] = i
    BY <2>4 DEF KeptIn
  <2>6. headers["connection"] \in Seq(1 .. Len(lines))
    BY <2>3 DEF HeadInv, HeadTypeOK
  <2>7. headers["connection"] # <<>>
    BY <2>5, <2>6
  <2>8. ValuesOf("connection") = <<"keep-alive">>
    BY <2>1, <2>7 DEF KeepAlive
  <2>9. n \in DOMAIN ValuesOf("connection") /\ ValuesOf("connection")[n] = "close"
    BY <2>5 DEF ValuesOf
  <2>10. \A m \in DOMAIN <<"keep-alive">> : <<"keep-alive">>[m] = "keep-alive"
    OBVIOUS
  <2> QED BY <2>8, <2>9, <2>10
<1> QED BY <1>1, StageInvariant, PTL
=============================================================================

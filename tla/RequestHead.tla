---------------------------- MODULE RequestHead ----------------------------
(***************************************************************************)
(* The loop over the header lines in Request::Request of                   *)
(* library/http/http_request.cpp: continuation lines, lines without a      *)
(* colon, repeated names, and the limit on the number of lines.            *)
(*                                                                         *)
(* A header value is kept as the sequence of the lines it was joined from, *)
(* by ", " or, for a continuation line, by a space.                        *)
(***************************************************************************)
EXTENDS Naturals, Sequences

CONSTANTS
  Keys,      (* header names, trimmed and in lower case                     *)
  EmptyKey,  (* the empty string                                            *)
  NoColon,   (* the key of a line without a colon                           *)
  Values,    (* what stands behind the colon                                *)
  MAX_LINE   (* RequestParseLimitations::MAX_LINE                           *)

ASSUME HeadAssumption ==
  /\ NoColon \notin Keys \cup {EmptyKey}
  /\ MAX_LINE \in Nat \ {0}

(* A line before the empty line that ends the head; lead: its first character
   is a space or a tabulator. *)
Line == [lead : BOOLEAN, key : Keys \cup {NoColon}, value : Values]

VARIABLES
  lines,        (* header_block, after the start line                       *)
  pos,          (* how many of them have been consumed                      *)
  headers,      (* Headers::items, <<>> for a name that is not there        *)
  last_key,
  header_count

headVars == <<lines, pos, headers, last_key, header_count>>

HeadTypeOK ==
  /\ lines \in Seq(Line)
  /\ pos \in 0 .. Len(lines)
  /\ headers \in [Keys -> Seq(1 .. Len(lines))]
  /\ last_key \in Keys \cup {EmptyKey}
  /\ header_count \in 0 .. MAX_LINE + 1

HeadInit ==
  /\ pos = 0
  /\ headers = [k \in Keys |-> <<>>]
  /\ last_key = EmptyKey
  /\ header_count = 0

(* The test of the loop, its first statement and consume_line. *)
NextLine ==
  /\ header_count <= MAX_LINE
  /\ header_count' = header_count + 1
  /\ pos < Len(lines)
  /\ pos' = pos + 1
  /\ UNCHANGED lines

Continues(l) == l.lead /\ last_key # EmptyKey

JoinLine(k) == headers' = [headers EXCEPT ![k] = Append(@, pos + 1)]

Continuation ==
  /\ NextLine
  /\ Continues(lines[pos + 1])
  /\ JoinLine(last_key)
  /\ UNCHANGED last_key

Malformed ==
  /\ NextLine
  /\ LET l == lines[pos + 1] IN ~Continues(l) /\ l.key = NoColon
  /\ UNCHANGED <<headers, last_key>>

(* Seeded fault: a repeated name replaces the value. *)
HeaderLineReplaces ==
  /\ NextLine
  /\ LET l == lines[pos + 1] IN
     /\ ~Continues(l) /\ l.key # NoColon
     /\ headers' = [headers EXCEPT ![l.key] = <<pos + 1>>]
     /\ last_key' = IF headers[l.key] = <<>> THEN EmptyKey ELSE l.key

(* The first line with a name moves key into the map, and the assignment of
   last_key that follows copies what the move has left: the empty string. *)
HeaderLine ==
  /\ NextLine
  /\ LET l == lines[pos + 1] IN
     /\ ~Continues(l) /\ l.key # NoColon
     /\ JoinLine(l.key)
     /\ last_key' = IF headers[l.key] = <<>> THEN EmptyKey ELSE l.key

(* Seeded fault: the iteration that meets the end is not counted. *)
LoopEndsUncounted ==
  /\ header_count > MAX_LINE \/ pos = Len(lines)
  /\ UNCHANGED headVars

(* The loop ends by its test, or by break at the empty line or the end. *)
LoopEnds ==
  /\ \/ header_count > MAX_LINE /\ UNCHANGED header_count
     \/ /\ header_count <= MAX_LINE /\ header_count' = header_count + 1
        /\ pos = Len(lines)
  /\ UNCHANGED <<lines, pos, headers, last_key>>

HeadStep == Continuation \/ Malformed \/ HeaderLine
=============================================================================

---------------------------- MODULE EchoContract ----------------------------
(***************************************************************************)
(* What a client of the echo server may rely on: it is sent the welcome    *)
(* and then the bytes it sent, and the server takes no more of them before *)
(* it has sent back those it took, until the connection is broken.         *)
(***************************************************************************)
EXTENDS Naturals, Sequences

CONSTANTS Peers, Welcome

VARIABLES
  heard,    (* how many bytes of the peer the server has taken              *)
  said,     (* what it has sent: the welcome is 1 to Welcome, then the echo *)
  broken    (* whether the connection is, or a call on it has failed        *)

echoVars == <<heard, said, broken>>

Init ==
  /\ heard = [p \in Peers |-> 0]
  /\ said = [p \in Peers |-> <<>>]
  /\ broken = [p \in Peers |-> FALSE]

Hear(p) ==
  /\ broken[p] \/ Len(said[p]) = Welcome + heard[p]
  /\ heard'[p] > heard[p] /\ heard' = [heard EXCEPT ![p] = heard'[p]]
  /\ UNCHANGED <<said, broken>>

Say(p) ==
  /\ ~broken[p]
  /\ \E n \in Len(said[p]) + 1 .. Welcome + heard[p] :
       said' = [said EXCEPT ![p] = [k \in 1 .. n |-> k]]
  /\ UNCHANGED <<heard, broken>>

Break(p) ==
  /\ ~broken[p]
  /\ broken' = [broken EXCEPT ![p] = TRUE]
  /\ UNCHANGED <<heard, said>>

(* Then what is sent may be anything, but stays sent. *)
Slip(p) ==
  /\ broken[p]
  /\ Len(said'[p]) > Len(said[p]) /\ \A k \in 1 .. Len(said[p]) : said'[p][k] = said[p][k]
  /\ said' = [said EXCEPT ![p] = said'[p]]
  /\ UNCHANGED <<heard, broken>>

Next == \E p \in Peers : Hear(p) \/ Say(p) \/ Break(p) \/ Slip(p)

Spec == Init /\ [][Next]_echoVars
=============================================================================

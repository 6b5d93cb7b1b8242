---------------------------- MODULE HttpContract ----------------------------
(***************************************************************************)
(* What a well-behaved client may rely on: its requests reach the handler  *)
(* whole and in order, each is answered before the next, and the server    *)
(* does not hang up on it before it has closed or asked for it.            *)
(***************************************************************************)
EXTENDS Naturals, Sequences

VARIABLES
  asked,     (* the requests of the client: [keep, body]       *)
  left,      (* the client has closed                          *)
  received,  (* the bodies the handler has got, in order       *)
  replied,   (* how many of them are answered                  *)
  up         (* the server has not closed                      *)

contractVars == <<asked, left, received, replied, up>>

Init == /\ left = FALSE /\ up = TRUE
        /\ received = <<>> /\ replied = 0

Idle == replied = Len(received)

Finished == Idle /\ received # <<>> /\ ~asked[replied].keep

Receive ==
  /\ up /\ Idle /\ ~Finished
  /\ Len(received) < Len(asked)
  /\ received' = Append(received, asked[Len(received) + 1].body)
  /\ UNCHANGED <<asked, left, replied, up>>

Reply ==
  /\ up /\ ~Idle
  /\ replied' = replied + 1
  /\ UNCHANGED <<asked, left, received, up>>

HangUp ==
  /\ up
  /\ Finished \/ (left /\ Idle)
  /\ up' = FALSE
  /\ UNCHANGED <<asked, left, received, replied>>

Leave == ~left /\ left' = TRUE /\ UNCHANGED <<asked, received, replied, up>>

Spec == Init /\ [][Receive \/ Reply \/ HangUp \/ Leave]_contractVars
=============================================================================

---------------------------- MODULE MessagePipe -----------------------------
(***************************************************************************)
(* What one direction of a WebSocket promises to the two programs at its   *)
(* ends: messages come out in the order they went in, none is skipped or   *)
(* repeated, and none comes out after the end of the stream was reported.  *)
(* The receiver may refuse a message that has come out (it asked for one   *)
(* of another kind); that message is lost, and the receiver knows it.      *)
(* Messages still inside when the connection breaks may be lost.           *)
(*                                                                         *)
(* Messages are numbered in the order they are sent.                       *)
(***************************************************************************)
EXTENDS Naturals

VARIABLES
    sent,        \* how many messages were sent
    taken,       \* the number of the message that came out last, 0 before the first
    delivered,   \* the number of the message that was delivered last
    shut         \* whether the receiver was told that the stream is over

vars == <<sent, taken, delivered, shut>>

Init ==
    /\ sent = 0
    /\ taken = 0
    /\ delivered = 0
    /\ shut = FALSE

Send ==
    /\ sent' = sent + 1
    /\ UNCHANGED <<taken, delivered, shut>>

Take ==
    /\ ~shut
    /\ taken < sent
    /\ taken' = taken + 1
    /\ UNCHANGED <<sent, shut>>

Deliver == Take /\ delivered' = taken'

Refuse == Take /\ UNCHANGED delivered

Shut ==
    /\ shut' = TRUE
    /\ UNCHANGED <<sent, taken, delivered>>

Next == Send \/ Deliver \/ Refuse \/ Shut

Spec == Init /\ [][Next]_vars
=============================================================================

-------------------------- MODULE LifespanProtocol --------------------------
(***************************************************************************)
(* What an ASGI application owes its server on the lifespan scope: the     *)
(* server announces startup and, once that is complete, shutdown, or       *)
(* cancels the application; the application answers startup and its end    *)
(* with complete or failed, once each, and says nothing after a failure.   *)
(***************************************************************************)
EXTENDS Sequences

VARIABLES
    told,       \* what the server announced
    answers     \* what the application sent

vars == <<told, answers>>

Init == told = <<>> /\ answers = <<>>

AnnounceStartup ==
    /\ told = <<>>
    /\ told' = <<"startup">>
    /\ UNCHANGED answers

AnswerStartup ==
    /\ told # <<>> /\ answers = <<>>
    /\ answers' \in {<<"startup.complete">>, <<"startup.failed">>}
    /\ UNCHANGED told

AnnounceShutdown ==
    /\ told = <<"startup">> /\ answers = <<"startup.complete">>
    /\ told' = <<"startup", "shutdown">>
    /\ UNCHANGED answers

Cancel ==
    /\ told = <<"startup">> /\ answers # <<"startup.failed">>
    /\ told' = <<"startup", "cancelled">>
    /\ UNCHANGED answers

AnswerShutdown ==
    /\ Len(told) = 2 /\ answers = <<"startup.complete">>
    /\ answers' \in {<<"startup.complete", "shutdown.complete">>,
                     <<"startup.complete", "shutdown.failed">>}
    /\ UNCHANGED told

Next == AnnounceStartup \/ AnswerStartup \/ AnnounceShutdown \/ Cancel \/ AnswerShutdown

Spec == Init /\ [][Next]_vars
=============================================================================

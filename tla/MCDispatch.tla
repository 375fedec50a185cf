----------------------------- MODULE MCDispatch -----------------------------
(***************************************************************************)
(* Instances of Dispatch for TLC.  Every configuration serves three        *)
(* requests: one with generators on both sides of a dependency that may    *)
(* fail, one that uses the slots of _bg, and one on a trivial route.       *)
(***************************************************************************)
EXTENDS Dispatch

CONSTANTS t1, t2, rGens, rSlots, rTrivial

MCRequests == {rGens, rSlots, rTrivial}

MCPlan == (rGens :> <<"sync", "sync", "async", "value">>)
       @@ (rSlots :> <<"tasks", "sync", "request">>)
       @@ (rTrivial :> <<>>)

\* Without the Request, which a native handler cannot get.
MCNativePlan == (rGens :> <<"sync", "sync", "async", "value">>)
             @@ (rSlots :> <<"tasks", "sync">>)
             @@ (rTrivial :> <<>>)

MCClass == (rGens :> "plain") @@ (rSlots :> "plain") @@ (rTrivial :> "trivial")

\* rSlots is on a template route that hides a later static one.
MCShadowedClass == (rGens :> "plain") @@ (rSlots :> "shadowed") @@ (rTrivial :> "trivial")

OneThread == {t1}

TwoThreads == {t1, t2}
=============================================================================

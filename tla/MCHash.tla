------------------------------- MODULE MCHash -------------------------------
(***************************************************************************)
(* Three threads, whose ids collide in a first table of two slots, or in a *)
(* first table of four but not in the next.                                *)
(***************************************************************************)
EXTENDS ImplicitProducerHash, TLC

CONSTANTS t1, t2, t3
Colliding == (t1 :> 0) @@ (t2 :> 0) @@ (t3 :> 1)
Spread == (t1 :> 0) @@ (t2 :> 4) @@ (t3 :> 1)

=============================================================================

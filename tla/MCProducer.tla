----------------------------- MODULE MCProducer -----------------------------
(* Two consumers on one sub-queue of three blocks, two elements a block.    *)
EXTENDS Producer

\* The claims of both producers are the same code; one returned claim is let
\* happen before further ones in the explicit one's states only.
OnlyExplicitOnce == [explicit \in BOOLEAN |-> IF explicit THEN 1 ELSE 0]

Interchangeable == Permutations(Consumers)

=============================================================================

--------------------------- MODULE MCBlockingQueue ---------------------------
(* Two producers and two consumers on one queue.                            *)
EXTENDS BlockingConcurrentQueue
=============================================================================

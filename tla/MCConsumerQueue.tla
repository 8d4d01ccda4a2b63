-------------------------- MODULE MCConsumerQueue --------------------------
(* A small queue: TLC's values for the constants of ConsumerQueue.         *)
EXTENDS ConsumerQueue, TLC

\* The consumers are interchangeable.
Symmetry == Permutations(Consumers)
=============================================================================

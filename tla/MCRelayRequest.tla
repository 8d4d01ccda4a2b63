--------------------------- MODULE MCRelayRequest ---------------------------
(* A small imServer: TLC's values for the constants of RelayRequest.       *)
EXTENDS RelayRequest, TLC

\* Worker threads are interchangeable, and so are message ids.
Symmetry == Permutations(Threads) \cup Permutations(MsgIds)
=============================================================================

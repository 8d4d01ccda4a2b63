----------------------------- MODULE MCDispatch -----------------------------
(* A small logicDispatch: TLC's values for the constants of Dispatch.      *)
EXTENDS Dispatch, TLC

\* Connections and descriptors are interchangeable.
Symmetry == Permutations(Conns) \cup Permutations(Fds)
=============================================================================

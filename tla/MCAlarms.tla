------------------------------ MODULE MCAlarms ------------------------------
(* Few phones, threads and alarms: TLC's values for Alarms.                *)
EXTENDS Alarms, TLC

CONSTANTS u1, u2

BothOwners == <<u1, u2>>

\* Phones, threads and workers are interchangeable; the users are listed.
Symmetry == Permutations(Phones) \cup Permutations(Threads) \cup Permutations(Handlers)

\* Without is SelectSeq: lists of up to five entries.
ASSUME WithoutCorrect ==
    \A s \in BoundedSeq(1 .. 3, 5), a \in 1 .. 4 :
        Without(s, a) = SelectSeq(s, LAMBDA b : b # a)
=============================================================================

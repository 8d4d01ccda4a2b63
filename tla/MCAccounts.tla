----------------------------- MODULE MCAccounts -----------------------------
(* An instance of Accounts for TLC. *)
EXTENDS Accounts, TLC

CONSTANTS n1, n2, p1, p2, t1, r1, r2

MCNames == {n1, n2}
MCPersons == {p1, p2}
MCThreads == {t1}
MCRenamers == {r1, r2}
MCSymmetry == Permutations(MCNames) \cup Permutations(MCPersons)
              \cup Permutations(MCRenamers)
\* Bound: changes of a name and adds together.
MCFew == adds + renames <= 3
=============================================================================

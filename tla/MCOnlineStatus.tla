--------------------------- MODULE MCOnlineStatus ---------------------------
(* Few users on one or two imServers: TLC's values for OnlineStatus.       *)
EXTENDS OnlineStatus, TLC

\* Users, servers and descriptors are interchangeable.
Symmetry == Permutations(Users) \cup Permutations(Servers) \cup Permutations(Fds)
=============================================================================

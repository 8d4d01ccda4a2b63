--------------------------- MODULE MCDeviceServer ---------------------------
(* A few descriptors and devices: TLC's values for DeviceServer.           *)
EXTENDS DeviceServer, TLC

\* Descriptors and devices are interchangeable.
Symmetry == Permutations(Fds) \cup Permutations(Devices)

\* Bound of MCDeviceServer.cfg: with ids that start over after two, the third
\* connection repeats the first one's id; it comes when at most one client's
\* descriptor is left and no command and no conn_new has failed.
MCFew ==
    accepts = 3 => /\ fails = 0
                   /\ lost = {}
                   /\ Cardinality({f \in Fds : owner[f] = "client"}) <= 1
=============================================================================

------------------------- MODULE MCReliableWebSocket -------------------------
(* Model values for ReliableWebSocket and the symmetry of its safety runs.  *)
EXTENDS ReliableWebSocket, TLC

\* WebConn objects and connection ids are interchangeable.
MCSymmetry == Permutations(Conns) \cup Permutations(Ids)
=============================================================================

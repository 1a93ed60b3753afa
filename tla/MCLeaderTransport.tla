-------------------------- MODULE MCLeaderTransport --------------------------
(* Small instances of LeaderTransport for TLC.                             *)
EXTENDS LeaderTransport, TLC

\* Tabs are interchangeable: nothing in the transport orders them.
Symmetry == Permutations(Tabs)
=============================================================================

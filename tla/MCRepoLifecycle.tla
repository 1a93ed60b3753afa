-------------------------- MODULE MCRepoLifecycle --------------------------
(* Small instances of RepoLifecycle for TLC.                               *)
EXTENDS RepoLifecycle, TLC

CONSTANTS s1, s2, old, new

\* The first session's page is older than the second's.
OldAndNew == (s1 :> old) @@ (s2 :> new)
\* The newer build has one more migration.
Versions == (old :> 1) @@ (new :> 2)
=============================================================================

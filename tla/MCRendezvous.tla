---------------------------- MODULE MCRendezvous ----------------------------
(* Small instances of Rendezvous for TLC: every assignment of codes and    *)
(* addresses that matters is named here.                                   *)
EXTENDS Rendezvous, TLC

CONSTANTS r1, r2, c1, ip1

\* Two keys collide on one code.
Colliding == (r1 :> c1) @@ (r2 :> c1)
\* Everyone shares one rate-limit bucket, as without TRUSTED_IP_HEADER.
OneAddress == [r \in Recipients |-> ip1]
\* There is one code for all keys.
OneCode == [r \in Recipients |-> c1]

\* Submissions are interchangeable.
SenderSymmetry == Permutations(Senders)
=============================================================================

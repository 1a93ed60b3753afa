------------------------------ MODULE MCIdleLock ------------------------------
(* IdleLock on small instances: tabs are interchangeable.                  *)
EXTENDS IdleLock, TLC

TabSymmetry == Permutations(Tabs)
=============================================================================

---------------------------- MODULE StorageService ----------------------------
(***************************************************************************)
(* What the storage transport promises its callers, whatever carries the   *)
(* messages: at most one database worker runs at a time, workers succeed   *)
(* one another in order, a request runs only under the worker of the day   *)
(* and only after it was issued, a promise settles once, and it resolves   *)
(* only after its request has run.  Delivery is at least once: a request   *)
(* may run again, under the same worker or the next, and a rejected one    *)
(* may still run.                                                          *)
(***************************************************************************)
EXTENDS Naturals, Sequences

CONSTANT Requests

VARIABLES
  writer,   \* the running worker's leader id, 0 when none runs
  last,     \* the last leader id handed out
  status,   \* the promise of each request
  runs      \* the workers that ran a request, in order

vars == <<writer, last, status, runs>>

Init ==
  /\ writer = 0
  /\ last = 0
  /\ status = [q \in Requests |-> "none"]
  /\ runs = [q \in Requests |-> <<>>]

\* A caller issues a request; a service that has failed refuses it.
Issue(q) ==
  /\ status[q] = "none"
  /\ \E s \in {"pending", "error"} : status' = [status EXCEPT ![q] = s]
  /\ UNCHANGED <<writer, last, runs>>

\* A worker starts, but only when none runs.
Start ==
  /\ writer = 0
  /\ writer' = last + 1
  /\ last' = last + 1
  /\ UNCHANGED <<status, runs>>

Run(q) ==
  /\ writer # 0
  /\ status[q] # "none"
  /\ runs' = [runs EXCEPT ![q] = Append(@, writer)]
  /\ UNCHANGED <<writer, last, status>>

Resolve(q) ==
  /\ status[q] = "pending"
  /\ runs[q] # <<>>
  /\ status' = [status EXCEPT ![q] = "ok"]
  /\ UNCHANGED <<writer, last, runs>>

\* Pending requests are rejected or lose their caller; the worker may stop
\* in the same step.
Give(S, s) == [q \in Requests |-> IF q \in S THEN s ELSE status[q]]
RejectOrStop ==
  /\ \E S \in SUBSET {q \in Requests : status[q] = "pending"}, s \in {"error", "gone"} :
       status' = Give(S, s)
  /\ writer' \in {writer, 0}
  /\ UNCHANGED <<last, runs>>

Next ==
  \/ Start
  \/ RejectOrStop
  \/ \E q \in Requests : Issue(q) \/ Run(q) \/ Resolve(q)

Spec == Init /\ [][Next]_vars
=============================================================================

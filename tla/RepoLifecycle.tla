--------------------------- MODULE RepoLifecycle ---------------------------
(***************************************************************************)
(* How a tab gets from an unlocked vault to an open database and back:     *)
(* the React hook useNotesRepo, the transport ladder of createRepo, the    *)
(* workers behind each tier with their lazily opened database, and the     *)
(* migrations that run inside the opening.                                 *)
(*                                                                         *)
(* A session is one mount of the hook.  Sessions of several tabs, and      *)
(* successive ones of one tab, whose tear-down may still be under way,     *)
(* overlap freely.  The leader tier is abstracted to who holds the lock:   *)
(* LeaderTransport shows that a request reaches the leader's worker and    *)
(* is replayed to the next one.  OPFS access handles are exclusive to one  *)
(* worker thread, and a terminated thread may take a while to let go.      *)
(***************************************************************************)
EXTENDS Naturals

CONSTANTS
  Sessions,   \* mounts of the hook; also names the session's own worker
  Builds,     \* deployed builds; also names the SharedWorker of each
  BuildOf,    \* the build a session's page was loaded from
  Target,     \* SCHEMA_VERSION of a build
  None,
  Zombie,     \* a terminated thread that still holds the access handles
  MaxVersion, \* the newest schema of all builds
  MaxFaults   \* bound on transient failures

ASSUME BuildAssumption ==
  /\ BuildOf \in [Sessions -> Builds]
  /\ MaxVersion \in Nat /\ Target \in [Builds -> 1 .. MaxVersion]
ASSUME NameAssumption ==
  /\ Sessions \cap Builds = {}
  /\ None \notin Sessions \cup Builds \cup {Zombie}
  /\ Zombie \notin Sessions \cup Builds
ASSUME FaultAssumption == MaxFaults \in Nat

Workers == Sessions \cup Builds
TargetOf(w) == Target[IF w \in Builds THEN w ELSE BuildOf[w]]
Ops == {"boot", "write", "close"}

VARIABLES
  shared,    \* what the browser's SharedWorker is good for
  locks,     \* the browser has navigator.locks
  mounted,   \* NotesShell: not yet, mounted, unmounted
  status,    \* RepoState of the hook
  pc,        \* where the session's createRepo, or its Repo, stands
  tier,      \* the transport in use
  call,      \* the session's requests and how far the worker is with each
  leader,    \* holder of the Web Lock
  alive,     \* workers that run
  db,        \* workers whose dispatcher has a database
  owner,     \* the thread that holds the access handles
  disk,      \* committed schema_meta.version and how often each step ran
  txn,       \* what the open transaction sees
  mig,       \* the request inside applyMigrations, and how far its step is
  faults

pageVars == <<mounted, status, pc, tier>>
dbVars == <<disk, txn, mig>>
vars == <<shared, locks, mounted, status, pc, tier, call, leader, alive, db,
          owner, disk, txn, mig, faults>>

NoCalls == [o \in Ops |-> "none"]
NoMigration == [session |-> None, op |-> "boot", phase |-> "begin"]
EmptyDisk == [version |-> 0, ran |-> [v \in 1 .. MaxVersion |-> 0]]

Init ==
  /\ shared \in {"missing", "noOpfs", "ok"} /\ locks \in BOOLEAN
  /\ mounted = [s \in Sessions |-> "no"]
  /\ status = [s \in Sessions |-> "idle"]
  /\ pc = [s \in Sessions |-> "none"]
  /\ tier = [s \in Sessions |-> "none"]
  /\ call = [s \in Sessions |-> NoCalls]
  /\ leader = None /\ alive = {} /\ db = {} /\ owner = None
  /\ disk = EmptyDisk /\ txn = EmptyDisk /\ mig = NoMigration
  /\ faults = 0

Fault == faults < MaxFaults /\ faults' = faults + 1

\* The worker that serves a session's requests.
WorkerOf(s) ==
  CASE tier[s] = "shared" -> BuildOf[s]
    [] tier[s] = "leader" -> leader
    [] tier[s] = "dedicated" -> s
    [] OTHER -> None

\* openDatabase's last part is synchronous: the worker serves nothing else.
Migrating(w) == mig.session # None /\ WorkerOf(mig.session) = w

-----------------------------------------------------------------------------
(* Workers that end.                                                       *)

\* Worker w, if it runs, is terminated by x: the transaction it had open is
\* lost, requests of x and of pages that are gone die with it, and those
\* that others have in flight are replayed to the next leader.
Terminated(w, x) ==
  /\ alive' = alive \ {w} /\ db' = db \ {w}
  /\ leader' = IF leader = w THEN None ELSE leader
  /\ owner' \in IF owner = w THEN {None, Zombie} ELSE {owner}
  /\ IF Migrating(w) THEN mig' = NoMigration /\ txn' = disk ELSE UNCHANGED <<mig, txn>>
  /\ call' = [s \in Sessions |-> [o \in Ops |->
       IF WorkerOf(s) # w THEN call[s][o]
       ELSE IF s = x \/ pc[s] = "ended" \/ call[s][o] = "none" THEN "none" ELSE "sent"]]
  /\ UNCHANGED disk

\* Mutant: the failure leaves the transaction open.
OverInTxn(s, op) == call' = [call EXCEPT ![s][op] = "none"] /\ UNCHANGED <<mig, txn>>
\* Request op of s is over in the worker: its rest of a migration is undone.
Over(s, op) ==
  /\ call' = [call EXCEPT ![s][op] = "none"]
  /\ IF mig.session = s /\ mig.op = op
     THEN mig' = NoMigration /\ txn' = disk ELSE UNCHANGED <<mig, txn>>

\* Mutant: the failed or closed transport is left running.
TerminateNot(s, op) == Over(s, op) /\ UNCHANGED <<alive, db, leader, owner, disk>>
\* client.terminate(), after the answer to op: a shared port is only closed,
\* a follower only leaves, a worker of one's own is terminated.
Terminate(s, op) ==
  IF s \in alive THEN Terminated(s, s)
  ELSE Over(s, op) /\ UNCHANGED <<alive, db, leader, owner, disk>>

ZombieGone ==
  /\ owner = Zombie /\ owner' = None
  /\ UNCHANGED <<shared, locks, call, leader, alive, db, faults>>
  /\ UNCHANGED pageVars /\ UNCHANGED dbVars

\* The browser ends a SharedWorker no page is connected to any more.
SharedGone(b) ==
  /\ b \in alive
  /\ \A s \in Sessions : tier[s] = "shared" /\ BuildOf[s] = b => pc[s] = "ended"
  /\ Terminated(b, b)
  /\ UNCHANGED <<shared, locks, faults>> /\ UNCHANGED pageVars

-----------------------------------------------------------------------------
(* The hook.                                                               *)

SetStatus(s, v) == status' = [status EXCEPT ![s] = v]
Goto(s, p) == pc' = [pc EXCEPT ![s] = p]
Sends(s, op) == call' = [call EXCEPT ![s][op] = "sent"]

Mount(s) ==
  /\ mounted[s] = "no"
  /\ mounted' = [mounted EXCEPT ![s] = "yes"]
  /\ SetStatus(s, "loading") /\ Goto(s, "wasm")
  /\ UNCHANGED <<shared, locks, tier, call, leader, alive, db, owner, faults>> /\ UNCHANGED dbVars

\* The clean-up: a Repo that is attached is closed, one still under way is
\* closed when it arrives.
Unmount(s) ==
  /\ mounted[s] = "yes"
  /\ mounted' = [mounted EXCEPT ![s] = "gone"]
  /\ IF status[s] = "ready" THEN Sends(s, "close") ELSE UNCHANGED call
  /\ UNCHANGED <<shared, locks, status, pc, tier, leader, alive, db, owner, faults>>
  /\ UNCHANGED dbVars

\* Mutant: a cancelled effect drops the Repo it is handed.
ResolvedDropped(s) ==
  [call EXCEPT ![s] = [o \in Ops |-> IF o = "boot" THEN "none" ELSE call[s][o]]]
\* createRepo resolves after the clean-up: the Repo is closed at once.
ResolvedLate(s) ==
  [call EXCEPT ![s] = [o \in Ops |-> IF o = "boot" THEN "none" ELSE IF o = "close" THEN "sent" ELSE call[s][o]]]

HookResolved(s) ==
  IF mounted[s] = "gone"
  THEN call' = ResolvedLate(s) /\ UNCHANGED status
  ELSE call' = [call EXCEPT ![s]["boot"] = "none"] /\ SetStatus(s, "ready")

\* Mutant: nobody catches createRepo's rejection.
HookRejectedUncaught(s) == UNCHANGED status
HookRejected(s) ==
  IF mounted[s] = "gone" THEN UNCHANGED status ELSE SetStatus(s, "error")

-----------------------------------------------------------------------------
(* The ladder of createRepo.                                               *)

MoveTo(s, t) == tier' = [tier EXCEPT ![s] = t]

\* A SharedWorker is started or joined, and bootstrap sent to it.
TryShared(s) ==
  /\ pc[s] = "wasm" /\ shared # "missing"
  /\ MoveTo(s, "shared") /\ Goto(s, "boot") /\ Sends(s, "boot")
  /\ alive' = alive \cup {BuildOf[s]}
  /\ UNCHANGED <<shared, locks, mounted, status, leader, db, owner, faults>> /\ UNCHANGED dbVars

\* There is no SharedWorker, or it cannot open OPFS.
PastShared(s) == pc[s] = "next" \/ (pc[s] = "wasm" /\ shared = "missing")

\* createRepo goes on to the leader tier and awaits whenReady.
TryLeader(s) ==
  /\ locks /\ PastShared(s)
  /\ MoveTo(s, "leader") /\ Goto(s, "whenReady")
  /\ UNCHANGED <<shared, locks, mounted, status, call, leader, alive, db, owner, faults>>
  /\ UNCHANGED dbVars

\* The last resort: a worker of one's own, lock or no lock.
TryDedicated(s) ==
  /\ pc[s] = "last" \/ (~locks /\ PastShared(s))
  /\ MoveTo(s, "dedicated") /\ Goto(s, "boot") /\ Sends(s, "boot")
  /\ alive' = alive \cup {s}
  /\ UNCHANGED <<shared, locks, mounted, status, leader, db, owner, faults>> /\ UNCHANGED dbVars

\* ensureWasm fails on the page.
WasmFails(s) ==
  /\ pc[s] = "wasm" /\ Fault
  /\ Goto(s, "ended") /\ HookRejected(s)
  /\ UNCHANGED <<shared, locks, mounted, tier, call, leader, alive, db, owner>> /\ UNCHANGED dbVars

\* The lock manager grants the lock to one of the open leader transports.
Elect(s) ==
  /\ leader = None /\ tier[s] = "leader" /\ pc[s] \in {"whenReady", "boot", "up"}
  /\ leader' = s /\ alive' = alive \cup {s}
  /\ UNCHANGED <<shared, locks, call, db, owner, faults>> /\ UNCHANGED pageVars /\ UNCHANGED dbVars

\* Elected or paired: bootstrap is sent.
WhenReady(s) ==
  /\ pc[s] = "whenReady" /\ leader # None
  /\ Goto(s, "boot") /\ Sends(s, "boot")
  /\ UNCHANGED <<shared, locks, mounted, status, tier, leader, alive, db, owner, faults>>
  /\ UNCHANGED dbVars

\* The lock request is rejected: leader.close() and on to the last resort.
WhenReadyFails(s) ==
  /\ pc[s] = "whenReady" /\ leader # s /\ Fault
  /\ Goto(s, "last") /\ MoveTo(s, "none") /\ Terminate(s, "boot")
  /\ UNCHANGED <<shared, locks, mounted, status>>

\* bootRepo fails: the transport is ended before another one is tried.
BootRejected(s, opfsUnavailable) ==
  LET next == IF tier[s] = "shared" /\ opfsUnavailable THEN "next"
              ELSE IF tier[s] = "leader" THEN "last" ELSE "ended"
  IN /\ Terminate(s, "boot")
     /\ Goto(s, next)
     /\ IF next = "ended" THEN HookRejected(s) /\ UNCHANGED tier
        ELSE MoveTo(s, "none") /\ UNCHANGED status

-----------------------------------------------------------------------------
(* Requests in a worker: Connection and the dispatcher.                    *)

Stage(s, op, stage) ==
  call[s][op] = stage /\ WorkerOf(s) \in alive /\ ~Migrating(WorkerOf(s))

\* The worker answers; a page that is gone hears nothing of it.
Answered(s, op) ==
  IF op = "boot" /\ pc[s] = "boot"
  THEN Goto(s, "up") /\ HookResolved(s)
  ELSE call' = [call EXCEPT ![s][op] = "none"] /\ UNCHANGED <<pc, status>>

AnsweredError(s, op, opfsUnavailable) ==
  IF op = "boot" /\ pc[s] = "boot"
  THEN BootRejected(s, opfsUnavailable)
  ELSE Over(s, op) /\ UNCHANGED <<pc, status, tier, alive, db, leader, owner, disk>>

Write(s) ==
  /\ mounted[s] = "yes" /\ status[s] = "ready" /\ call[s]["write"] = "none"
  /\ Sends(s, "write")
  /\ UNCHANGED <<shared, locks, leader, alive, db, owner, faults>>
  /\ UNCHANGED pageVars /\ UNCHANGED dbVars

\* withDb finds the database open and runs the handler.
Served(s, op) ==
  /\ op # "close" /\ Stage(s, op, "sent") /\ WorkerOf(s) \in db
  /\ Answered(s, op)
  /\ UNCHANGED <<shared, locks, mounted, tier, leader, alive, db, owner, faults>>
  /\ UNCHANGED dbVars

\* withDb finds none and starts to open one, whoever else is doing so.
LazyOpen(s, op) ==
  /\ op # "close" /\ Stage(s, op, "sent") /\ WorkerOf(s) \notin db
  /\ call' = [call EXCEPT ![s][op] = "install"]
  /\ UNCHANGED <<shared, locks, leader, alive, db, owner, faults>>
  /\ UNCHANGED pageVars /\ UNCHANGED dbVars

\* `close' needs no database; its answer ends the client and its transport.
Closes(s) ==
  /\ Stage(s, "close", "sent")
  /\ IF pc[s] = "up"
     THEN Terminate(s, "close") /\ Goto(s, "ended")
     ELSE Over(s, "close") /\ UNCHANGED <<pc, alive, db, leader, owner, disk>>
  /\ UNCHANGED <<shared, locks, mounted, status, tier, faults>>

\* installOpfsSAHPoolVfs gets the access handles.
Install(s, op) ==
  LET w == WorkerOf(s) IN
  /\ Stage(s, op, "install") /\ owner \in {None, w}
  /\ ~(w \in Builds /\ shared = "noOpfs")
  /\ owner' = w /\ call' = [call EXCEPT ![s][op] = "opened"]
  /\ UNCHANGED <<shared, locks, leader, alive, db, faults>> /\ UNCHANGED pageVars /\ UNCHANGED dbVars

\* It does not: the worker has no OPFS, another thread has the handles, or
\* something else went wrong.
InstallFails(s, op) ==
  LET w == WorkerOf(s)
      noOpfs == w \in Builds /\ shared = "noOpfs"
  IN /\ Stage(s, op, "install")
     /\ Fault \/ (UNCHANGED faults /\ (noOpfs \/ owner \notin {None, w}))
     /\ AnsweredError(s, op, noOpfs)
     /\ UNCHANGED <<shared, locks, mounted>>

-----------------------------------------------------------------------------
(* Migrations, inside the synchronous end of openDatabase.                 *)

\* Mutant: an unknown version has nothing pending.
UnknownVersionNever(installed, latest) == FALSE
\* pending(): forward-only, so a newer database is an error.
UnknownVersion(installed, latest) == installed > latest

\* The handle is open and no step is pending.
Opened(s, op) ==
  LET w == WorkerOf(s) IN
  /\ Stage(s, op, "opened")
  /\ ~UnknownVersion(disk.version, TargetOf(w)) /\ disk.version >= TargetOf(w)
  /\ db' = db \cup {w} /\ Answered(s, op)
  /\ UNCHANGED <<shared, locks, mounted, tier, leader, alive, owner, faults>> /\ UNCHANGED dbVars

Refused(s, op) ==
  /\ Stage(s, op, "opened")
  /\ UnknownVersion(disk.version, TargetOf(WorkerOf(s)))
  /\ AnsweredError(s, op, FALSE)
  /\ UNCHANGED <<shared, locks, mounted, faults>>

BeginMigrations(s, op) ==
  /\ Stage(s, op, "opened") /\ disk.version < TargetOf(WorkerOf(s))
  /\ mig' = [session |-> s, op |-> op, phase |-> "begin"] /\ txn' = disk
  /\ call' = [call EXCEPT ![s][op] = "migrate"]
  /\ UNCHANGED <<shared, locks, leader, alive, db, owner, disk, faults>> /\ UNCHANGED pageVars

\* Mutant: without BEGIN every statement commits by itself.
Autocommit(new) == txn' = new /\ disk' = new
\* A statement between BEGIN and COMMIT.
InTxn(new) == txn' = new /\ UNCHANGED disk

Phase(s, op, phase) == mig = [session |-> s, op |-> op, phase |-> phase]
Proceed(phase) == mig' = [mig EXCEPT !.phase = phase]

UpSql(s, op) ==
  /\ Phase(s, op, "begin")
  /\ InTxn([txn EXCEPT !.ran[txn.version + 1] = @ + 1]) /\ Proceed("ran")
  /\ UNCHANGED <<shared, locks, call, leader, alive, db, owner, faults>> /\ UNCHANGED pageVars

Stamp(s, op) ==
  /\ Phase(s, op, "ran")
  /\ InTxn([txn EXCEPT !.version = @ + 1]) /\ Proceed("stamped")
  /\ UNCHANGED <<shared, locks, call, leader, alive, db, owner, faults>> /\ UNCHANGED pageVars

\* COMMIT; after the last step the database is the dispatcher's.
Commit(s, op) ==
  /\ Phase(s, op, "stamped")
  /\ disk' = txn /\ UNCHANGED txn
  /\ IF txn.version < TargetOf(WorkerOf(s))
     THEN Proceed("begin") /\ UNCHANGED <<db, call, pc, status>>
     ELSE mig' = NoMigration /\ db' = db \cup {WorkerOf(s)} /\ Answered(s, op)
  /\ UNCHANGED <<shared, locks, mounted, tier, leader, alive, owner, faults>>

\* A statement throws: ROLLBACK, and the error goes to the caller.
MigrationFails(s, op) ==
  /\ mig.session = s /\ mig.op = op /\ Fault
  /\ AnsweredError(s, op, FALSE)
  /\ UNCHANGED <<shared, locks, mounted>>

-----------------------------------------------------------------------------
\* A page is closed or crashes: its own worker goes with it, what it asked of
\* another worker that runs is still served.
PageGone(s) ==
  /\ pc[s] \notin {"none", "ended"}
  /\ mounted' = [mounted EXCEPT ![s] = "gone"] /\ Goto(s, "ended")
  /\ IF s \in alive THEN Terminated(s, s)
     ELSE /\ call' = [call EXCEPT ![s] = IF WorkerOf(s) \in alive THEN @ ELSE NoCalls]
          /\ UNCHANGED <<alive, db, leader, owner, mig, txn, disk>>
  /\ UNCHANGED <<shared, locks, status, tier, faults>>

WorkerStep(s) ==
  \/ Closes(s)
  \/ \E op \in Ops :
       \/ Served(s, op) \/ LazyOpen(s, op) \/ Install(s, op) \/ InstallFails(s, op)
       \/ Opened(s, op) \/ Refused(s, op) \/ BeginMigrations(s, op)
       \/ UpSql(s, op) \/ Stamp(s, op) \/ Commit(s, op) \/ MigrationFails(s, op)
LadderStep(s) ==
  \/ TryShared(s) \/ TryLeader(s) \/ TryDedicated(s) \/ WasmFails(s)
  \/ WhenReady(s) \/ WhenReadyFails(s)

Next ==
  \/ \E s \in Sessions :
       \/ WorkerStep(s) \/ LadderStep(s)
       \/ Mount(s) \/ Unmount(s) \/ Write(s) \/ PageGone(s) \/ Elect(s)
  \/ \E b \in Builds : SharedGone(b)
  \/ ZombieGone

Spec == Init /\ [][Next]_vars

\* Workers serve what reaches them, pages go on when an await settles and
\* the lock manager grants a free lock.
FairSpec ==
  /\ Spec
  /\ \A s \in Sessions : WF_vars(LadderStep(s)) /\ WF_vars(WorkerStep(s))
  /\ WF_vars(\E s \in Sessions : Elect(s))

-----------------------------------------------------------------------------
(* Properties.                                                             *)

Stages == {"none", "sent", "install", "opened", "migrate"}
Disks == [version: 0 .. MaxVersion, ran: [1 .. MaxVersion -> Nat]]

\* Every variable holds a value of its type and a transaction is open only
\* for a request that is still in its migration, whichever sessions end at
\* whichever point of one another's requests.
TypeOK ==
  /\ shared \in {"missing", "noOpfs", "ok"} /\ locks \in BOOLEAN
  /\ mounted \in [Sessions -> {"no", "yes", "gone"}]
  /\ status \in [Sessions -> {"idle", "loading", "ready", "error"}]
  /\ pc \in [Sessions -> {"none", "wasm", "next", "whenReady", "last", "boot", "up", "ended"}]
  /\ tier \in [Sessions -> {"none", "shared", "leader", "dedicated"}]
  /\ call \in [Sessions -> [Ops -> Stages]]
  /\ leader \in Sessions \cup {None}
  /\ alive \subseteq Workers /\ db \subseteq alive
  /\ owner \in Workers \cup {None, Zombie}
  /\ disk \in Disks /\ txn \in Disks
  /\ mig \in [session: Sessions \cup {None}, op: Ops, phase: {"begin", "ran", "stamped"}]
  /\ mig.session # None => call[mig.session][mig.op] = "migrate"
  /\ faults \in 0 .. MaxFaults

\* Every migration up to the version on disk has run exactly once and none
\* beyond it, whatever crashed, failed or opened the database twice.
MigratedOnce ==
  \A v \in 1 .. MaxVersion : disk.ran[v] = IF v <= disk.version THEN 1 ELSE 0

\* A handler runs only against a database its own thread has the files of and
\* whose schema is the one its build was made for, although builds of
\* different age, several openings and three tiers compete for it.
ServedAtTarget ==
  \A w \in db : owner = w /\ disk.version = TargetOf(w)

\* A worker or a lock never outlives its use: a session's own worker runs
\* only while it leads or is on the last tier, and a session that is over
\* neither leads nor runs one.
NothingLeftRunning ==
  /\ \A s \in Sessions \cap alive :
       pc[s] # "ended" /\ (leader = s \/ tier[s] = "dedicated")
  /\ leader # None => leader \in alive /\ tier[leader] = "leader"

\* The hook's spinner ends: every rung of the ladder answers or fails.
LoadingEnds ==
  \A s \in Sessions :
    mounted[s] = "yes" /\ status[s] = "loading" ~> mounted[s] = "gone" \/ status[s] # "loading"

\* Whatever createRepo was doing when the hook was unmounted, its Repo is
\* closed in the end.
ReleasedAfterUnmount ==
  \A s \in Sessions : mounted[s] = "gone" ~> pc[s] = "ended"
=============================================================================

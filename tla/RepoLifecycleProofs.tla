--------------------------- MODULE RepoLifecycleProofs ---------------------------
(***************************************************************************)
(* The way to an open database for any number of sessions, builds, schema  *)
(* versions and failures: migrations run once and in order, a handler has  *)
(* the files and the schema it was made for, nothing is left running.      *)
(***************************************************************************)
EXTENDS RepoLifecycle, TLAPS

\* How far a session is up the ladder, and what it can have asked for there.
LadderOK(s) ==
  /\ mounted[s] = "no" => pc[s] = "none"
  /\ pc[s] \in {"none", "wasm", "next", "last"} => tier[s] = "none"
  /\ pc[s] = "whenReady" => tier[s] = "leader"
  /\ pc[s] \notin {"up", "ended"} =>
       status[s] # "ready" /\ call[s]["write"] = "none" /\ call[s]["close"] = "none"
  /\ pc[s] \notin {"boot", "up", "ended"} => call[s]["boot"] = "none"
  /\ call[s]["close"] \in {"none", "sent"}
LadderInv == NothingLeftRunning /\ \A s \in Sessions : LadderOK(s)

\* A request that has been taken up is in a worker that runs, and one that
\* has passed the installation of the VFS is in the thread with the handles.
RequestOK(s, op) ==
  /\ call[s][op] \in {"install", "opened", "migrate"} => WorkerOf(s) \in alive
  /\ call[s][op] \in {"opened", "migrate"} => owner = WorkerOf(s)
RequestInv == \A s \in Sessions, op \in Ops : RequestOK(s, op)

\* What the open transaction sees, by the statement that comes next: always
\* one step of the build that migrates, on top of what is committed.
RanUpTo(d, v) == \A k \in 1 .. MaxVersion : d.ran[k] = IF k <= v THEN 1 ELSE 0
MigrationInv ==
  mig.session # None =>
    LET target == TargetOf(WorkerOf(mig.session)) IN
    /\ disk.version < target
    /\ txn.version = IF mig.phase = "stamped" THEN disk.version + 1 ELSE disk.version
    /\ RanUpTo(txn, IF mig.phase = "begin" THEN disk.version ELSE disk.version + 1)
DatabaseInv == MigratedOnce /\ ServedAtTarget /\ MigrationInv

\* Inductive.  None of the four is so alone: what a transaction sees depends on
\* which worker its request is in, that on the session's tier, and the tier
\* on which requests can be under way at each rung.
RepoInv == TypeOK /\ LadderInv /\ RequestInv /\ DatabaseInv

\* TypeOK by the part of the state it speaks of.
PageTypes ==
  /\ shared \in {"missing", "noOpfs", "ok"} /\ locks \in BOOLEAN
  /\ mounted \in [Sessions -> {"no", "yes", "gone"}]
  /\ status \in [Sessions -> {"idle", "loading", "ready", "error"}]
  /\ pc \in [Sessions -> {"none", "wasm", "next", "whenReady", "last", "boot", "up", "ended"}]
  /\ tier \in [Sessions -> {"none", "shared", "leader", "dedicated"}]
  /\ faults \in 0 .. MaxFaults
WorkerTypes ==
  /\ leader \in Sessions \cup {None}
  /\ alive \subseteq Workers /\ db \subseteq alive
  /\ owner \in Workers \cup {None, Zombie}
RequestTypes ==
  /\ call \in [Sessions -> [Ops -> Stages]]
  /\ mig \in [session: Sessions \cup {None}, op: Ops, phase: {"begin", "ran", "stamped"}]
  /\ mig.session # None => call[mig.session][mig.op] = "migrate"
DiskTypes == disk \in Disks /\ txn \in Disks

LEMMA InvParts ==
  ASSUME PageTypes', WorkerTypes', RequestTypes', DiskTypes',
         LadderInv', RequestInv', DatabaseInv'
  PROVE  RepoInv'
BY DEF RepoInv, TypeOK, PageTypes, WorkerTypes, RequestTypes, DiskTypes

LEMMA CallUpdate ==
  ASSUME NEW c \in [Sessions -> [Ops -> Stages]], NEW s \in Sessions, NEW op \in Ops,
         NEW stage \in Stages
  PROVE  [c EXCEPT ![s][op] = stage] \in [Sessions -> [Ops -> Stages]]
OBVIOUS

LEMMA WorkerNames ==
  /\ \A s \in Sessions : BuildOf[s] \in Workers /\ BuildOf[s] \in Builds \ Sessions
  /\ None \notin Workers
BY BuildAssumption, NameAssumption DEF Workers

\* A session that has sent nothing yet migrates nothing.
LEMMA NothingAsked ==
  ASSUME RepoInv, NEW s \in Sessions, pc[s] \notin {"boot", "up", "ended"}
  PROVE  mig.session # s
<1>1. call[s]["boot"] = "none" /\ call[s]["write"] = "none" /\ call[s]["close"] = "none"
  BY DEF RepoInv, LadderInv, LadderOK
<1>2. mig.op \in Ops
  BY DEF RepoInv, TypeOK
<1>3. call[s][mig.op] # "migrate"
  BY <1>1, <1>2 DEF Ops
<1>4. mig.session # None => call[mig.session][mig.op] = "migrate"
  BY DEF RepoInv, TypeOK
<1>. QED BY <1>3, <1>4, NameAssumption

\* The request that migrates is in a worker that runs and has the handles.
LEMMA Migrator ==
  ASSUME RepoInv, mig.session # None
  PROVE  /\ mig.session \in Sessions /\ mig.op \in Ops \ {"close"}
         /\ call[mig.session][mig.op] = "migrate"
         /\ WorkerOf(mig.session) \in alive /\ owner = WorkerOf(mig.session)
         /\ disk.version < TargetOf(WorkerOf(mig.session))
<1>1. /\ mig.session \in Sessions /\ mig.op \in Ops
      /\ call[mig.session][mig.op] = "migrate"
  BY DEF RepoInv, TypeOK
<1>2. call[mig.session]["close"] # "migrate"
  BY <1>1 DEF RepoInv, LadderInv, LadderOK
<1>3. RequestOK(mig.session, mig.op) /\ MigrationInv
  BY <1>1 DEF RepoInv, RequestInv, DatabaseInv
<1>. QED BY <1>1, <1>2, <1>3 DEF RequestOK, MigrationInv

-----------------------------------------------------------------------------
(* What a step may leave of the database's part.                           *)

LEMMA DatabaseFrame ==
  ASSUME RepoInv, UNCHANGED dbVars,
         mig.session # None => WorkerOf(mig.session)' = WorkerOf(mig.session),
         \A w \in db' : w \in db /\ owner' = owner
  PROVE  DatabaseInv'
BY DEF RepoInv, DatabaseInv, MigratedOnce, ServedAtTarget, MigrationInv, RanUpTo, dbVars, TargetOf

LEMMA DatabaseReset ==
  ASSUME RepoInv, UNCHANGED disk, mig' = NoMigration, \A w \in db' : w \in db /\ owner' = owner
  PROVE  DatabaseInv'
BY DEF RepoInv, DatabaseInv, MigratedOnce, ServedAtTarget, MigrationInv, NoMigration, TargetOf
-----------------------------------------------------------------------------
(* The hook and the ladder.                                                *)

LEMMA MountPreserves ==
  ASSUME RepoInv, NEW s \in Sessions, Mount(s)
  PROVE  RepoInv'
<1>1. PageTypes'
  BY DEF RepoInv, PageTypes, TypeOK, Mount, dbVars, SetStatus, Goto
<1>2. WorkerTypes'
  BY BuildAssumption, NameAssumption
  DEF RepoInv, WorkerTypes, TypeOK, LadderInv, NothingLeftRunning, Mount, dbVars,
  SetStatus, Goto, Workers
<1>3. RequestTypes'
  BY BuildAssumption, NameAssumption
  DEF RepoInv, RequestTypes, TypeOK, Stages, Ops, LadderInv, LadderOK,
  NothingLeftRunning, RequestInv, RequestOK, Mount, dbVars, SetStatus, Goto, WorkerOf,
  Workers
<1>4. DiskTypes'
  BY DEF RepoInv, DiskTypes, TypeOK, Mount, dbVars, SetStatus, Goto
<1>5. LadderInv'
  BY BuildAssumption, NameAssumption
  DEF RepoInv, TypeOK, Stages, Ops, LadderInv, LadderOK, NothingLeftRunning, Mount,
  dbVars, SetStatus, Goto, Workers
<1>6. RequestInv'
  BY BuildAssumption, NameAssumption
  DEF RepoInv, TypeOK, Stages, Ops, LadderInv, LadderOK, NothingLeftRunning,
  RequestInv, RequestOK, Mount, dbVars, SetStatus, Goto, WorkerOf, Workers
<1>7. DatabaseInv'
  BY DatabaseFrame DEF Mount, WorkerOf, dbVars, SetStatus
<1>. QED BY <1>1, <1>2, <1>3, <1>4, <1>5, <1>6, <1>7, InvParts

LEMMA UnmountPreserves ==
  ASSUME RepoInv, NEW s \in Sessions, Unmount(s)
  PROVE  RepoInv'
<1>1. PageTypes'
  BY DEF RepoInv, PageTypes, TypeOK, Unmount, dbVars, Sends
<1>2. WorkerTypes'
  BY BuildAssumption, NameAssumption
  DEF RepoInv, WorkerTypes, TypeOK, LadderInv, NothingLeftRunning, Unmount, dbVars,
  Sends, Workers
<1>3. RequestTypes'
  <2>1. call' \in [Sessions -> [Ops -> Stages]]
    <3>1. /\ call \in [Sessions -> [Ops -> Stages]] /\ "close" \in Ops /\ "sent" \in Stages
          /\ call' = call \/ call' = [call EXCEPT ![s]["close"] = "sent"]
      BY DEF RepoInv, TypeOK, Unmount, Sends, Ops, Stages
    <3>. QED BY <3>1, CallUpdate
  <2>2. mig.session # None => mig.op # "close"
    BY Migrator
  <2>3. mig.session # None => call'[mig.session][mig.op] = call[mig.session][mig.op]
    BY <2>2 DEF RepoInv, TypeOK, Ops, Unmount, Sends
  <2>. QED BY <2>1, <2>3 DEF RepoInv, TypeOK, RequestTypes, Unmount, dbVars
<1>4. DiskTypes'
  BY DEF RepoInv, DiskTypes, TypeOK, Unmount, dbVars, Sends
<1>5. LadderInv'
  BY BuildAssumption, NameAssumption
  DEF RepoInv, TypeOK, Stages, Ops, LadderInv, LadderOK, NothingLeftRunning, Unmount,
  dbVars, Sends, Workers
<1>6. RequestInv'
  BY BuildAssumption, NameAssumption
  DEF RepoInv, TypeOK, Stages, Ops, LadderInv, LadderOK, NothingLeftRunning,
  RequestInv, RequestOK, Unmount, dbVars, Sends, WorkerOf, Workers
<1>7. DatabaseInv'
  BY DatabaseFrame DEF Unmount, WorkerOf, dbVars
<1>. QED BY <1>1, <1>2, <1>3, <1>4, <1>5, <1>6, <1>7, InvParts

LEMMA WritePreserves ==
  ASSUME RepoInv, NEW s \in Sessions, Write(s)
  PROVE  RepoInv'
<1>1. PageTypes'
  BY DEF RepoInv, PageTypes, TypeOK, Write, pageVars, dbVars, Sends
<1>2. WorkerTypes'
  BY BuildAssumption, NameAssumption
  DEF RepoInv, WorkerTypes, TypeOK, LadderInv, NothingLeftRunning, Write, pageVars,
  dbVars, Sends, Workers
<1>3. RequestTypes'
  BY BuildAssumption, NameAssumption
  DEF RepoInv, RequestTypes, TypeOK, Stages, Ops, LadderInv, LadderOK,
  NothingLeftRunning, RequestInv, RequestOK, Write, pageVars, dbVars, Sends, WorkerOf,
  Workers
<1>4. DiskTypes'
  BY DEF RepoInv, DiskTypes, TypeOK, Write, pageVars, dbVars, Sends
<1>5. LadderInv'
  BY BuildAssumption, NameAssumption
  DEF RepoInv, TypeOK, Stages, Ops, LadderInv, LadderOK, NothingLeftRunning, Write,
  pageVars, dbVars, Sends, Workers
<1>6. RequestInv'
  BY BuildAssumption, NameAssumption
  DEF RepoInv, TypeOK, Stages, Ops, LadderInv, LadderOK, NothingLeftRunning,
  RequestInv, RequestOK, Write, pageVars, dbVars, Sends, WorkerOf, Workers
<1>7. DatabaseInv'
  BY DatabaseFrame DEF Write, WorkerOf, pageVars, dbVars
<1>. QED BY <1>1, <1>2, <1>3, <1>4, <1>5, <1>6, <1>7, InvParts

LEMMA TrySharedPreserves ==
  ASSUME RepoInv, NEW s \in Sessions, TryShared(s)
  PROVE  RepoInv'
<1>1. PageTypes'
  BY DEF RepoInv, PageTypes, TypeOK, TryShared, dbVars, Goto, Sends, MoveTo
<1>2. WorkerTypes'
  BY WorkerNames DEF RepoInv, TypeOK, WorkerTypes, TryShared
<1>3. RequestTypes'
  BY BuildAssumption, NameAssumption
  DEF RepoInv, RequestTypes, TypeOK, Stages, Ops, LadderInv, LadderOK,
  NothingLeftRunning, RequestInv, RequestOK, TryShared, dbVars, Goto, Sends, MoveTo,
  WorkerOf, Workers
<1>4. DiskTypes'
  BY DEF RepoInv, DiskTypes, TypeOK, TryShared, dbVars, Goto, Sends, MoveTo
<1>5. LadderInv'
  <2>1. s \notin alive /\ leader # s
    BY NameAssumption DEF RepoInv, TypeOK, LadderInv, LadderOK, NothingLeftRunning, TryShared
  <2>2. NothingLeftRunning'
    BY <2>1, WorkerNames, NameAssumption
    DEF RepoInv, TypeOK, LadderInv, NothingLeftRunning, TryShared, Goto, MoveTo
  <2>3. \A x \in Sessions : LadderOK(x)'
    BY DEF RepoInv, TypeOK, LadderInv, LadderOK, TryShared, Goto, MoveTo, Sends, Ops, Stages
  <2>. QED BY <2>2, <2>3 DEF LadderInv
<1>6. RequestInv'
  BY BuildAssumption, NameAssumption
  DEF RepoInv, TypeOK, Stages, Ops, LadderInv, LadderOK, NothingLeftRunning,
  RequestInv, RequestOK, TryShared, dbVars, Goto, Sends, MoveTo, WorkerOf, Workers
<1>7. DatabaseInv'
  <2>1. mig.session # s
    BY NothingAsked DEF TryShared
  <2>2. mig.session # None => WorkerOf(mig.session)' = WorkerOf(mig.session)
    BY <2>1 DEF TryShared, MoveTo, WorkerOf, RepoInv, TypeOK, dbVars
  <2>. QED BY <2>2, DatabaseFrame DEF TryShared
<1>. QED BY <1>1, <1>2, <1>3, <1>4, <1>5, <1>6, <1>7, InvParts

LEMMA TryLeaderPreserves ==
  ASSUME RepoInv, NEW s \in Sessions, TryLeader(s)
  PROVE  RepoInv'
<1>1. PageTypes'
  BY DEF RepoInv, PageTypes, TypeOK, TryLeader, dbVars, Goto, MoveTo, PastShared
<1>2. WorkerTypes'
  BY BuildAssumption, NameAssumption
  DEF RepoInv, WorkerTypes, TypeOK, LadderInv, NothingLeftRunning, TryLeader, dbVars,
  Goto, MoveTo, PastShared, Workers
<1>3. RequestTypes'
  BY BuildAssumption, NameAssumption
  DEF RepoInv, RequestTypes, TypeOK, Stages, Ops, LadderInv, LadderOK,
  NothingLeftRunning, RequestInv, RequestOK, TryLeader, dbVars, Goto, MoveTo,
  PastShared, WorkerOf, Workers
<1>4. DiskTypes'
  BY DEF RepoInv, DiskTypes, TypeOK, TryLeader, dbVars, Goto, MoveTo, PastShared
<1>5. LadderInv'
  BY BuildAssumption, NameAssumption
  DEF RepoInv, TypeOK, Stages, Ops, LadderInv, LadderOK, NothingLeftRunning, TryLeader,
  dbVars, Goto, MoveTo, PastShared, Workers
<1>6. RequestInv'
  BY BuildAssumption, NameAssumption
  DEF RepoInv, TypeOK, Stages, Ops, LadderInv, LadderOK, NothingLeftRunning,
  RequestInv, RequestOK, TryLeader, dbVars, Goto, MoveTo, PastShared, WorkerOf, Workers
<1>7. DatabaseInv'
  <2>1. mig.session # s
    BY NothingAsked DEF TryLeader, PastShared
  <2>2. mig.session # None => WorkerOf(mig.session)' = WorkerOf(mig.session)
    BY <2>1 DEF TryLeader, MoveTo, WorkerOf, RepoInv, TypeOK, dbVars
  <2>. QED BY <2>2, DatabaseFrame DEF TryLeader
<1>. QED BY <1>1, <1>2, <1>3, <1>4, <1>5, <1>6, <1>7, InvParts

LEMMA TryDedicatedPreserves ==
  ASSUME RepoInv, NEW s \in Sessions, TryDedicated(s)
  PROVE  RepoInv'
<1>1. PageTypes'
  BY 
  DEF RepoInv, PageTypes, TypeOK, TryDedicated, dbVars, Goto, Sends, MoveTo, PastShared
<1>2. WorkerTypes'
  BY BuildAssumption, NameAssumption
  DEF RepoInv, WorkerTypes, TypeOK, LadderInv, NothingLeftRunning, TryDedicated,
  dbVars, Goto, Sends, MoveTo, PastShared, Workers
<1>3. RequestTypes'
  BY BuildAssumption, NameAssumption
  DEF RepoInv, RequestTypes, TypeOK, Stages, Ops, LadderInv, LadderOK,
  NothingLeftRunning, RequestInv, RequestOK, TryDedicated, dbVars, Goto, Sends, MoveTo,
  PastShared, WorkerOf, Workers
<1>4. DiskTypes'
  BY 
  DEF RepoInv, DiskTypes, TypeOK, TryDedicated, dbVars, Goto, Sends, MoveTo, PastShared
<1>5. LadderInv'
  BY BuildAssumption, NameAssumption
  DEF RepoInv, TypeOK, Stages, Ops, LadderInv, LadderOK, NothingLeftRunning,
  TryDedicated, dbVars, Goto, Sends, MoveTo, PastShared, Workers
<1>6. RequestInv'
  BY BuildAssumption, NameAssumption
  DEF RepoInv, TypeOK, Stages, Ops, LadderInv, LadderOK, NothingLeftRunning,
  RequestInv, RequestOK, TryDedicated, dbVars, Goto, Sends, MoveTo, PastShared,
  WorkerOf, Workers
<1>7. DatabaseInv'
  <2>1. mig.session # s
    BY NothingAsked DEF TryDedicated, PastShared
  <2>2. mig.session # None => WorkerOf(mig.session)' = WorkerOf(mig.session)
    BY <2>1 DEF TryDedicated, MoveTo, WorkerOf, RepoInv, TypeOK, dbVars
  <2>. QED BY <2>2, DatabaseFrame DEF TryDedicated
<1>. QED BY <1>1, <1>2, <1>3, <1>4, <1>5, <1>6, <1>7, InvParts

LEMMA WasmFailsPreserves ==
  ASSUME RepoInv, NEW s \in Sessions, WasmFails(s)
  PROVE  RepoInv'
<1>1. PageTypes'
  BY FaultAssumption
  DEF RepoInv, PageTypes, TypeOK, WasmFails, dbVars, Fault, Goto, HookRejected,
  SetStatus
<1>2. WorkerTypes'
  BY BuildAssumption, NameAssumption
  DEF RepoInv, WorkerTypes, TypeOK, LadderInv, NothingLeftRunning, WasmFails, dbVars,
  Fault, Goto, HookRejected, SetStatus, Workers
<1>3. RequestTypes'
  BY BuildAssumption, NameAssumption
  DEF RepoInv, RequestTypes, TypeOK, Stages, Ops, LadderInv, LadderOK,
  NothingLeftRunning, RequestInv, RequestOK, WasmFails, dbVars, Fault, Goto,
  HookRejected, SetStatus, WorkerOf, Workers
<1>4. DiskTypes'
  BY 
  DEF RepoInv, DiskTypes, TypeOK, WasmFails, dbVars, Fault, Goto, HookRejected,
  SetStatus
<1>5. LadderInv'
  BY BuildAssumption, NameAssumption
  DEF RepoInv, TypeOK, Stages, Ops, LadderInv, LadderOK, NothingLeftRunning, WasmFails,
  dbVars, Fault, Goto, HookRejected, SetStatus, Workers
<1>6. RequestInv'
  BY BuildAssumption, NameAssumption
  DEF RepoInv, TypeOK, Stages, Ops, LadderInv, LadderOK, NothingLeftRunning,
  RequestInv, RequestOK, WasmFails, dbVars, Fault, Goto, HookRejected, SetStatus,
  WorkerOf, Workers
<1>7. DatabaseInv'
  BY DatabaseFrame DEF WasmFails, WorkerOf, dbVars, SetStatus
<1>. QED BY <1>1, <1>2, <1>3, <1>4, <1>5, <1>6, <1>7, InvParts

LEMMA WhenReadyPreserves ==
  ASSUME RepoInv, NEW s \in Sessions, WhenReady(s)
  PROVE  RepoInv'
<1>1. PageTypes'
  BY DEF RepoInv, PageTypes, TypeOK, WhenReady, dbVars, Goto, Sends
<1>2. WorkerTypes'
  BY BuildAssumption, NameAssumption
  DEF RepoInv, WorkerTypes, TypeOK, LadderInv, NothingLeftRunning, WhenReady, dbVars,
  Goto, Sends, Workers
<1>3. RequestTypes'
  BY BuildAssumption, NameAssumption
  DEF RepoInv, RequestTypes, TypeOK, Stages, Ops, LadderInv, LadderOK,
  NothingLeftRunning, RequestInv, RequestOK, WhenReady, dbVars, Goto, Sends, WorkerOf,
  Workers
<1>4. DiskTypes'
  BY DEF RepoInv, DiskTypes, TypeOK, WhenReady, dbVars, Goto, Sends
<1>5. LadderInv'
  BY BuildAssumption, NameAssumption
  DEF RepoInv, TypeOK, Stages, Ops, LadderInv, LadderOK, NothingLeftRunning, WhenReady,
  dbVars, Goto, Sends, Workers
<1>6. RequestInv'
  BY BuildAssumption, NameAssumption
  DEF RepoInv, TypeOK, Stages, Ops, LadderInv, LadderOK, NothingLeftRunning,
  RequestInv, RequestOK, WhenReady, dbVars, Goto, Sends, WorkerOf, Workers
<1>7. DatabaseInv'
  BY DatabaseFrame DEF WhenReady, WorkerOf, dbVars
<1>. QED BY <1>1, <1>2, <1>3, <1>4, <1>5, <1>6, <1>7, InvParts

LEMMA ElectPreserves ==
  ASSUME RepoInv, NEW s \in Sessions, Elect(s)
  PROVE  RepoInv'
<1>1. PageTypes'
  BY DEF RepoInv, PageTypes, TypeOK, Elect, pageVars, dbVars
<1>2. WorkerTypes'
  BY BuildAssumption, NameAssumption
  DEF RepoInv, WorkerTypes, TypeOK, LadderInv, NothingLeftRunning, Elect, pageVars,
  dbVars, Workers
<1>3. RequestTypes'
  BY BuildAssumption, NameAssumption
  DEF RepoInv, RequestTypes, TypeOK, Stages, Ops, LadderInv, LadderOK,
  NothingLeftRunning, RequestInv, RequestOK, Elect, pageVars, dbVars, WorkerOf, Workers
<1>4. DiskTypes'
  BY DEF RepoInv, DiskTypes, TypeOK, Elect, pageVars, dbVars
<1>5. LadderInv'
  BY BuildAssumption, NameAssumption
  DEF RepoInv, TypeOK, Stages, Ops, LadderInv, LadderOK, NothingLeftRunning, Elect,
  pageVars, dbVars, Workers
<1>6. RequestInv'
  BY BuildAssumption, NameAssumption
  DEF RepoInv, TypeOK, Stages, Ops, LadderInv, LadderOK, NothingLeftRunning,
  RequestInv, RequestOK, Elect, pageVars, dbVars, WorkerOf, Workers
<1>7. DatabaseInv'
  <2>1. mig.session # None => WorkerOf(mig.session) \in alive
    BY DEF RepoInv, TypeOK, RequestInv, RequestOK
  <2>2. mig.session # None => WorkerOf(mig.session)' = WorkerOf(mig.session)
    BY <2>1, NameAssumption DEF Elect, pageVars, dbVars, WorkerOf, RepoInv, TypeOK, Workers
  <2>. QED BY <2>2, DatabaseFrame DEF Elect
<1>. QED BY <1>1, <1>2, <1>3, <1>4, <1>5, <1>6, <1>7, InvParts

LEMMA ZombieGonePreserves ==
  ASSUME RepoInv, ZombieGone
  PROVE  RepoInv'
<1>1. PageTypes'
  BY DEF RepoInv, PageTypes, TypeOK, ZombieGone, pageVars, dbVars
<1>2. WorkerTypes'
  BY BuildAssumption, NameAssumption
  DEF RepoInv, WorkerTypes, TypeOK, LadderInv, NothingLeftRunning, ZombieGone,
  pageVars, dbVars, Workers
<1>3. RequestTypes'
  BY BuildAssumption, NameAssumption
  DEF RepoInv, RequestTypes, TypeOK, Stages, Ops, LadderInv, LadderOK,
  NothingLeftRunning, RequestInv, RequestOK, ZombieGone, pageVars, dbVars, WorkerOf,
  Workers
<1>4. DiskTypes'
  BY DEF RepoInv, DiskTypes, TypeOK, ZombieGone, pageVars, dbVars
<1>5. LadderInv'
  BY BuildAssumption, NameAssumption
  DEF RepoInv, TypeOK, Stages, Ops, LadderInv, LadderOK, NothingLeftRunning,
  ZombieGone, pageVars, dbVars, Workers
<1>6. RequestInv'
  BY BuildAssumption, NameAssumption
  DEF RepoInv, TypeOK, Stages, Ops, LadderInv, LadderOK, NothingLeftRunning,
  RequestInv, RequestOK, ZombieGone, pageVars, dbVars, WorkerOf, Workers
<1>7. DatabaseInv'
  BY NameAssumption, DatabaseFrame
  DEF ZombieGone, pageVars, dbVars, WorkerOf, RepoInv, DatabaseInv, ServedAtTarget, TypeOK, Workers
<1>. QED BY <1>1, <1>2, <1>3, <1>4, <1>5, <1>6, <1>7, InvParts

-----------------------------------------------------------------------------
(* Requests that go on in a worker.                                        *)

LEMMA LazyOpenPreserves ==
  ASSUME RepoInv, NEW s \in Sessions, NEW op \in Ops, LazyOpen(s, op)
  PROVE  RepoInv'
<1>1. PageTypes'
  BY 
  DEF RepoInv, PageTypes, TypeOK, LazyOpen, pageVars, dbVars, WorkerOf, Stage,
  Migrating
<1>2. WorkerTypes'
  BY BuildAssumption, NameAssumption
  DEF RepoInv, WorkerTypes, TypeOK, LadderInv, NothingLeftRunning, LazyOpen, pageVars,
  dbVars, WorkerOf, Stage, Migrating, Workers
<1>3. RequestTypes'
  BY BuildAssumption, NameAssumption
  DEF RepoInv, RequestTypes, TypeOK, Stages, Ops, LadderInv, LadderOK,
  NothingLeftRunning, RequestInv, RequestOK, LazyOpen, pageVars, dbVars, WorkerOf,
  Stage, Migrating, Workers
<1>4. DiskTypes'
  BY 
  DEF RepoInv, DiskTypes, TypeOK, LazyOpen, pageVars, dbVars, WorkerOf, Stage,
  Migrating
<1>5. LadderInv'
  BY BuildAssumption, NameAssumption
  DEF RepoInv, TypeOK, Stages, Ops, LadderInv, LadderOK, NothingLeftRunning, LazyOpen,
  pageVars, dbVars, WorkerOf, Stage, Migrating, Workers
<1>6. RequestInv'
  BY BuildAssumption, NameAssumption
  DEF RepoInv, TypeOK, Stages, Ops, LadderInv, LadderOK, NothingLeftRunning,
  RequestInv, RequestOK, LazyOpen, pageVars, dbVars, WorkerOf, Stage, Migrating,
  Workers
<1>7. DatabaseInv'
  BY DatabaseFrame DEF LazyOpen, WorkerOf, pageVars, dbVars
<1>. QED BY <1>1, <1>2, <1>3, <1>4, <1>5, <1>6, <1>7, InvParts

LEMMA InstallPreserves ==
  ASSUME RepoInv, NEW s \in Sessions, NEW op \in Ops, Install(s, op)
  PROVE  RepoInv'
<1>1. PageTypes'
  BY 
  DEF RepoInv, PageTypes, TypeOK, Install, pageVars, dbVars, WorkerOf, Stage, Migrating
<1>2. WorkerTypes'
  BY BuildAssumption, NameAssumption
  DEF RepoInv, WorkerTypes, TypeOK, LadderInv, NothingLeftRunning, Install, pageVars,
  dbVars, WorkerOf, Stage, Migrating, Workers
<1>3. RequestTypes'
  BY BuildAssumption, NameAssumption
  DEF RepoInv, RequestTypes, TypeOK, Stages, Ops, LadderInv, LadderOK,
  NothingLeftRunning, RequestInv, RequestOK, Install, pageVars, dbVars, WorkerOf,
  Stage, Migrating, Workers
<1>4. DiskTypes'
  BY 
  DEF RepoInv, DiskTypes, TypeOK, Install, pageVars, dbVars, WorkerOf, Stage, Migrating
<1>5. LadderInv'
  BY BuildAssumption, NameAssumption
  DEF RepoInv, TypeOK, Stages, Ops, LadderInv, LadderOK, NothingLeftRunning, Install,
  pageVars, dbVars, WorkerOf, Stage, Migrating, Workers
<1>6. RequestInv'
  BY BuildAssumption, NameAssumption
  DEF RepoInv, TypeOK, Stages, Ops, LadderInv, LadderOK, NothingLeftRunning,
  RequestInv, RequestOK, Install, pageVars, dbVars, WorkerOf, Stage, Migrating, Workers
<1>7. DatabaseInv'
  <2>1. ASSUME NEW w \in db PROVE owner' = owner
    BY <2>1, WorkerNames DEF RepoInv, TypeOK, DatabaseInv, ServedAtTarget, Install
  <2>. QED BY <2>1, DatabaseFrame DEF Install, pageVars, dbVars, WorkerOf
<1>. QED BY <1>1, <1>2, <1>3, <1>4, <1>5, <1>6, <1>7, InvParts

LEMMA BeginMigrationsPreserves ==
  ASSUME RepoInv, NEW s \in Sessions, NEW op \in Ops, BeginMigrations(s, op)
  PROVE  RepoInv'
<1>1. PageTypes'
  BY 
  DEF RepoInv, PageTypes, TypeOK, BeginMigrations, pageVars, WorkerOf, Stage,
  Migrating, TargetOf
<1>2. WorkerTypes'
  BY BuildAssumption, NameAssumption
  DEF RepoInv, WorkerTypes, TypeOK, LadderInv, NothingLeftRunning, BeginMigrations,
  pageVars, WorkerOf, Stage, Migrating, TargetOf, Workers
<1>3. RequestTypes'
  BY BuildAssumption, NameAssumption
  DEF RepoInv, RequestTypes, TypeOK, Stages, Ops, LadderInv, LadderOK,
  NothingLeftRunning, RequestInv, RequestOK, BeginMigrations, pageVars, WorkerOf,
  Stage, Migrating, TargetOf, Workers
<1>4. DiskTypes'
  BY 
  DEF RepoInv, DiskTypes, TypeOK, BeginMigrations, pageVars, WorkerOf, Stage,
  Migrating, TargetOf
<1>5. LadderInv'
  BY BuildAssumption, NameAssumption
  DEF RepoInv, TypeOK, Stages, Ops, LadderInv, LadderOK, NothingLeftRunning,
  BeginMigrations, pageVars, WorkerOf, Stage, Migrating, TargetOf, Workers
<1>6. RequestInv'
  BY BuildAssumption, NameAssumption
  DEF RepoInv, TypeOK, Stages, Ops, LadderInv, LadderOK, NothingLeftRunning,
  RequestInv, RequestOK, BeginMigrations, pageVars, WorkerOf, Stage, Migrating,
  TargetOf, Workers
<1>7. DatabaseInv'
  <2>1. WorkerOf(s)' = WorkerOf(s) /\ mig'.session = s /\ mig'.phase = "begin"
        /\ UNCHANGED <<disk, db, owner>> /\ txn' = disk
        /\ disk.version < TargetOf(WorkerOf(s))
    BY DEF BeginMigrations, pageVars, WorkerOf
  <2>2. ServedAtTarget' /\ MigratedOnce'
    BY <2>1 DEF RepoInv, DatabaseInv, ServedAtTarget, MigratedOnce, TargetOf
  <2>3. RanUpTo(disk, disk.version)
    BY DEF RepoInv, DatabaseInv, MigratedOnce, RanUpTo
  <2>4. MigrationInv'
    BY <2>1, <2>3 DEF MigrationInv, RanUpTo, TargetOf
  <2>. QED BY <2>2, <2>4 DEF DatabaseInv
<1>. QED BY <1>1, <1>2, <1>3, <1>4, <1>5, <1>6, <1>7, InvParts

\* What an answer does to the page and to its other requests.
LEMMA AnswerEffect ==
  ASSUME RepoInv, NEW s \in Sessions, NEW op \in Ops \ {"close"}, Answered(s, op)
  PROVE  /\ call' \in [Sessions -> [Ops -> Stages]]
         /\ pc' = pc \/ (pc[s] = "boot" /\ pc' = [pc EXCEPT ![s] = "up"])
         /\ status' = status \/ (pc'[s] = "up" /\ status' = [status EXCEPT ![s] = "ready"])
         /\ call'[s][op] = "none"
         /\ \A x \in Sessions, o \in Ops :
              \/ call'[x][o] = call[x][o]
              \/ x = s /\ o = op
              \/ x = s /\ o = "close" /\ call'[x][o] = "sent" /\ pc'[s] = "up"
<1>1. CASE op = "boot" /\ pc[s] = "boot" /\ mounted[s] = "gone"
  BY <1>1 DEF Answered, HookResolved, ResolvedLate, Goto, RepoInv, TypeOK, Ops, Stages
<1>2. CASE op = "boot" /\ pc[s] = "boot" /\ mounted[s] # "gone"
  BY <1>2 DEF Answered, HookResolved, SetStatus, Goto, RepoInv, TypeOK, Ops, Stages
<1>3. CASE ~(op = "boot" /\ pc[s] = "boot")
  BY <1>3 DEF Answered, RepoInv, TypeOK, Ops, Stages
<1>. QED BY <1>1, <1>2, <1>3

LEMMA AnswerKeepsMigrator ==
  ASSUME RepoInv, NEW s \in Sessions, NEW op \in Ops \ {"close"}, Answered(s, op),
         call[s][op] # "migrate", mig' = mig
  PROVE  RequestTypes'
<1>1. ASSUME mig.session # None PROVE call'[mig.session][mig.op] = "migrate"
  <2>1. /\ mig.session \in Sessions /\ mig.op \in Ops \ {"close"}
        /\ call[mig.session][mig.op] = "migrate"
    BY <1>1, Migrator
  <2>2. \A x \in Sessions, o \in Ops :
          call'[x][o] = call[x][o] \/ (x = s /\ o = op) \/ o = "close"
    BY AnswerEffect
  <2>. QED BY <2>1, <2>2
<1>2. call' \in [Sessions -> [Ops -> Stages]]
  BY AnswerEffect
<1>. QED BY <1>1, <1>2 DEF RepoInv, TypeOK, RequestTypes

\* An answer keeps the pages and the requests in order.
LEMMA AnswerPreserves ==
  ASSUME RepoInv, NEW s \in Sessions, NEW op \in Ops \ {"close"}, Answered(s, op),
         UNCHANGED <<shared, locks, mounted, tier, leader, alive, owner, faults>>
  PROVE  PageTypes' /\ LadderInv' /\ RequestInv'
<1>1. PageTypes'
  <2>1. pc' = pc \/ pc' = [pc EXCEPT ![s] = "up"]
    BY AnswerEffect
  <2>2. status' = status \/ status' = [status EXCEPT ![s] = "ready"]
    BY AnswerEffect
  <2>. QED BY <2>1, <2>2 DEF RepoInv, TypeOK, PageTypes
<1>2. NothingLeftRunning'
  BY AnswerEffect DEF RepoInv, TypeOK, LadderInv, NothingLeftRunning
<1>3. ASSUME NEW x \in Sessions PROVE LadderOK(x)'
  BY AnswerEffect DEF RepoInv, TypeOK, LadderInv, LadderOK, Ops, Stages
<1>4. ASSUME NEW x \in Sessions, NEW o \in Ops PROVE RequestOK(x, o)'
  <2>1. call'[x][o] \in {call[x][o], "none", "sent"}
    BY AnswerEffect
  <2>2. WorkerOf(x)' = WorkerOf(x)
    BY DEF WorkerOf
  <2>. QED BY <2>1, <2>2 DEF RepoInv, RequestInv, RequestOK
<1>. QED BY <1>1, <1>2, <1>3, <1>4 DEF LadderInv, RequestInv

LEMMA ServedPreserves ==
  ASSUME RepoInv, NEW s \in Sessions, NEW op \in Ops, Served(s, op)
  PROVE  RepoInv'
<1>1. /\ op # "close" /\ call[s][op] = "sent" /\ Answered(s, op)
      /\ UNCHANGED <<shared, locks, mounted, tier, leader, alive, db, owner, disk, txn, mig, faults>>
  BY DEF Served, Stage, dbVars
<1>2. PageTypes' /\ LadderInv' /\ RequestInv'
  BY <1>1, AnswerPreserves
<1>3. WorkerTypes' /\ DiskTypes'
  BY <1>1 DEF RepoInv, TypeOK, WorkerTypes, DiskTypes
<1>4. RequestTypes'
  BY <1>1, AnswerKeepsMigrator
<1>5. DatabaseInv'
  BY <1>1, DatabaseFrame DEF WorkerOf, dbVars
<1>. QED BY <1>2, <1>3, <1>4, <1>5, InvParts

LEMMA OpenedPreserves ==
  ASSUME RepoInv, NEW s \in Sessions, NEW op \in Ops, Opened(s, op)
  PROVE  RepoInv'
<1>1. /\ call[s][op] = "opened" /\ WorkerOf(s) \in alive
      /\ Answered(s, op) /\ db' = db \cup {WorkerOf(s)}
      /\ UNCHANGED <<shared, locks, mounted, tier, leader, alive, owner, disk, txn, mig, faults>>
      /\ disk.version = TargetOf(WorkerOf(s))
  <2>1. disk.version \in Nat /\ TargetOf(WorkerOf(s)) \in Nat
    BY BuildAssumption DEF RepoInv, TypeOK, Disks, Opened, Stage, TargetOf, Workers
  <2>. QED BY <2>1 DEF Opened, Stage, UnknownVersion, dbVars
<1>2. op # "close" /\ owner = WorkerOf(s)
  BY <1>1 DEF RepoInv, LadderInv, LadderOK, RequestInv, RequestOK
<1>3. PageTypes' /\ LadderInv' /\ RequestInv'
  BY <1>1, <1>2, AnswerPreserves
<1>4. WorkerTypes' /\ DiskTypes'
  BY <1>1 DEF RepoInv, TypeOK, WorkerTypes, DiskTypes
<1>5. RequestTypes'
  BY <1>1, <1>2, AnswerKeepsMigrator
<1>6. DatabaseInv'
  <2>1. ServedAtTarget' /\ MigratedOnce'
    BY <1>1, <1>2 DEF RepoInv, DatabaseInv, ServedAtTarget, MigratedOnce, TargetOf
  <2>2. MigrationInv'
    BY <1>1 DEF RepoInv, DatabaseInv, MigrationInv, RanUpTo, WorkerOf, TargetOf
  <2>. QED BY <2>1, <2>2 DEF DatabaseInv
<1>. QED BY <1>3, <1>4, <1>5, <1>6, InvParts

-----------------------------------------------------------------------------
(* Migrations.                                                             *)

\* While a migration runs no handler has the database, and the next version
\* is one of the target's.
LEMMA MigrationAlone ==
  ASSUME RepoInv, mig.session # None
  PROVE  db = {} /\ disk.version \in Nat /\ disk.version + 1 \in 1 .. MaxVersion
<1>1. /\ WorkerOf(mig.session) \in Workers /\ owner = WorkerOf(mig.session)
      /\ disk.version < TargetOf(WorkerOf(mig.session))
  BY Migrator DEF RepoInv, TypeOK
<1>2. TargetOf(WorkerOf(mig.session)) \in 1 .. MaxVersion
  BY <1>1, BuildAssumption DEF TargetOf, Workers
<1>3. disk.version \in 0 .. MaxVersion
  BY DEF RepoInv, TypeOK, Disks
<1>4. \A w \in db : owner = w /\ disk.version = TargetOf(w)
  BY DEF RepoInv, DatabaseInv, ServedAtTarget
<1>. QED BY <1>1, <1>2, <1>3, <1>4, BuildAssumption

\* A statement of the migration in hand: only the transaction changes.
LEMMA StatementPreserves ==
  ASSUME RepoInv, mig.session # None, NEW phase \in {"ran", "stamped"},
         mig' = [mig EXCEPT !.phase = phase], txn' \in Disks, MigrationInv',
         UNCHANGED <<shared, locks, call, leader, alive, db, owner, faults, disk>>,
         UNCHANGED pageVars
  PROVE  RepoInv'
<1>1. PageTypes' /\ WorkerTypes' /\ RequestTypes' /\ DiskTypes'
  BY DEF RepoInv, TypeOK, PageTypes, WorkerTypes, RequestTypes, DiskTypes, pageVars
<1>2. LadderInv'
  BY DEF RepoInv, LadderInv, LadderOK, NothingLeftRunning, pageVars
<1>3. RequestInv'
  BY DEF RepoInv, RequestInv, RequestOK, WorkerOf, pageVars
<1>4. DatabaseInv'
  BY DEF RepoInv, DatabaseInv, MigratedOnce, ServedAtTarget, TargetOf
<1>. QED BY <1>1, <1>2, <1>3, <1>4, InvParts

LEMMA RunCounted ==
  ASSUME NEW ran \in [1 .. MaxVersion -> Nat], NEW v \in 1 .. MaxVersion
  PROVE  /\ [ran EXCEPT ![v] = @ + 1] \in [1 .. MaxVersion -> Nat]
         /\ \A k \in 1 .. MaxVersion :
              [ran EXCEPT ![v] = @ + 1][k] = IF k = v THEN ran[k] + 1 ELSE ran[k]
OBVIOUS

LEMMA UpSqlPreserves ==
  ASSUME RepoInv, NEW s \in Sessions, NEW op \in Ops, UpSql(s, op)
  PROVE  RepoInv'
<1>1. /\ mig.session = s /\ mig.phase = "begin" /\ mig' = [mig EXCEPT !.phase = "ran"]
      /\ txn' = [txn EXCEPT !.ran[txn.version + 1] = @ + 1]
      /\ UNCHANGED <<shared, locks, call, leader, alive, db, owner, faults, disk>>
      /\ UNCHANGED pageVars
  BY DEF UpSql, Phase, InTxn, Proceed
<1>2. mig.session # None /\ mig \in [session: Sessions \cup {None}, op: Ops, phase: {"begin", "ran", "stamped"}]
  BY <1>1, NameAssumption DEF RepoInv, TypeOK
<1>3. /\ txn.version = disk.version /\ RanUpTo(txn, disk.version)
      /\ disk.version < TargetOf(WorkerOf(mig.session))
  BY <1>1, <1>2 DEF RepoInv, DatabaseInv, MigrationInv
<1>4. /\ txn \in [version: 0 .. MaxVersion, ran: [1 .. MaxVersion -> Nat]]
      /\ disk.version \in Nat /\ disk.version + 1 \in 1 .. MaxVersion
  BY <1>2, MigrationAlone DEF RepoInv, TypeOK, Disks
<1>5. txn' = [version |-> txn.version, ran |-> [txn.ran EXCEPT ![disk.version + 1] = @ + 1]]
  BY <1>1, <1>3, <1>4
<1>6. txn' \in Disks
  BY <1>4, <1>5, RunCounted DEF Disks
<1>7. txn'.version = disk.version /\ RanUpTo(txn, disk.version + 1)'
  <2>1. txn.ran \in [1 .. MaxVersion -> Nat]
    BY <1>4
  <2>2. \A k \in 1 .. MaxVersion :
          txn'.ran[k] = IF k = disk.version + 1 THEN txn.ran[k] + 1 ELSE txn.ran[k]
    BY <1>4, <1>5, <2>1, RunCounted
  <2>. QED BY <1>1, <1>3, <1>4, <1>5, <2>2 DEF RanUpTo
<1>8. MigrationInv'
  BY <1>1, <1>2, <1>3, <1>7 DEF MigrationInv, WorkerOf, TargetOf, pageVars, RanUpTo
<1>. QED BY <1>1, <1>2, <1>6, <1>8, StatementPreserves

LEMMA StampPreserves ==
  ASSUME RepoInv, NEW s \in Sessions, NEW op \in Ops, Stamp(s, op)
  PROVE  RepoInv'
<1>1. /\ mig.session = s /\ mig.phase = "ran" /\ mig' = [mig EXCEPT !.phase = "stamped"]
      /\ txn' = [txn EXCEPT !.version = @ + 1]
      /\ UNCHANGED <<shared, locks, call, leader, alive, db, owner, faults, disk>>
      /\ UNCHANGED pageVars
  BY DEF Stamp, Phase, InTxn, Proceed
<1>2. mig.session # None /\ mig \in [session: Sessions \cup {None}, op: Ops, phase: {"begin", "ran", "stamped"}]
  BY <1>1, NameAssumption DEF RepoInv, TypeOK
<1>3. /\ txn.version = disk.version /\ RanUpTo(txn, disk.version + 1)
      /\ disk.version < TargetOf(WorkerOf(mig.session))
  BY <1>1, <1>2 DEF RepoInv, DatabaseInv, MigrationInv
<1>4. /\ txn \in [version: 0 .. MaxVersion, ran: [1 .. MaxVersion -> Nat]]
      /\ disk.version \in Nat /\ disk.version + 1 \in 1 .. MaxVersion
  BY <1>2, MigrationAlone DEF RepoInv, TypeOK, Disks
<1>5. txn' = [version |-> disk.version + 1, ran |-> txn.ran]
  BY <1>1, <1>3, <1>4
<1>6. txn' \in Disks
  BY <1>4, <1>5, BuildAssumption DEF Disks
<1>7. txn'.version = disk.version + 1 /\ RanUpTo(txn, disk.version + 1)'
  BY <1>1, <1>3, <1>5 DEF RanUpTo
<1>8. MigrationInv'
  BY <1>1, <1>2, <1>3, <1>7 DEF MigrationInv, WorkerOf, TargetOf, pageVars, RanUpTo
<1>. QED BY <1>1, <1>2, <1>6, <1>8, StatementPreserves

\* COMMIT makes the transaction's version the one on disk; the last one makes
\* the database the dispatcher's.
LEMMA CommitPreserves ==
  ASSUME RepoInv, NEW s \in Sessions, NEW op \in Ops, Commit(s, op)
  PROVE  RepoInv'
<1>1. /\ mig.session = s /\ mig.op = op /\ mig.phase = "stamped"
      /\ disk' = txn /\ txn' = txn
      /\ UNCHANGED <<shared, locks, mounted, tier, leader, alive, owner, faults>>
  BY DEF Commit, Phase
<1>2. /\ mig.session # None /\ op # "close" /\ call[s][op] = "migrate"
      /\ WorkerOf(s) \in alive /\ owner = WorkerOf(s)
      /\ db = {} /\ disk.version + 1 \in 1 .. MaxVersion /\ disk.version \in Nat
  BY <1>1, NameAssumption, Migrator, MigrationAlone
<1>3. /\ txn.version = disk.version + 1 /\ RanUpTo(txn, txn.version)
      /\ disk.version < TargetOf(WorkerOf(s)) /\ TargetOf(WorkerOf(s)) \in Nat
  <2>1. TargetOf(WorkerOf(s)) \in Nat
    BY <1>2, BuildAssumption DEF RepoInv, TypeOK, TargetOf, Workers
  <2>. QED BY <1>1, <1>2, <2>1 DEF RepoInv, DatabaseInv, MigrationInv
<1>4. DiskTypes' /\ MigratedOnce'
  BY <1>1, <1>3 DEF RepoInv, TypeOK, DiskTypes, MigratedOnce, RanUpTo
<1>5. WorkerOf(s)' = WorkerOf(s)
  BY <1>1 DEF WorkerOf
<1>6. CASE txn.version < TargetOf(WorkerOf(s))
  <2>1. mig' = [mig EXCEPT !.phase = "begin"] /\ UNCHANGED <<db, call, pc, status>>
    BY <1>6 DEF Commit, Proceed
  <2>2. PageTypes' /\ WorkerTypes' /\ RequestTypes'
    BY <1>1, <2>1 DEF RepoInv, TypeOK, PageTypes, WorkerTypes, RequestTypes
  <2>3. LadderInv'
    BY <1>1, <2>1 DEF RepoInv, LadderInv, LadderOK, NothingLeftRunning
  <2>4. RequestInv'
    BY <1>1, <2>1 DEF RepoInv, RequestInv, RequestOK, WorkerOf
  <2>5. mig'.session = s /\ mig'.phase = "begin"
    BY <1>1, <2>1 DEF RepoInv, TypeOK
  <2>6. MigrationInv'
    BY <1>1, <1>3, <1>5, <1>6, <2>5 DEF MigrationInv, TargetOf, RanUpTo
  <2>7. ServedAtTarget'
    BY <1>2, <2>1 DEF ServedAtTarget
  <2>. QED BY <1>4, <2>2, <2>3, <2>4, <2>6, <2>7, InvParts DEF DatabaseInv
<1>7. CASE ~(txn.version < TargetOf(WorkerOf(s)))
  <2>1. mig' = NoMigration /\ db' = {WorkerOf(s)} /\ Answered(s, op)
    BY <1>2, <1>7 DEF Commit
  <2>2. PageTypes' /\ LadderInv' /\ RequestInv'
    BY <1>1, <1>2, <2>1, AnswerPreserves
  <2>3. WorkerTypes'
    BY <1>1, <1>2, <2>1 DEF RepoInv, TypeOK, WorkerTypes
  <2>4. RequestTypes'
    BY <1>2, <2>1, AnswerEffect DEF RequestTypes, NoMigration, Ops
  <2>5. MigrationInv' 
    BY <2>1 DEF MigrationInv, NoMigration
  <2>6. ServedAtTarget'
    BY <1>1, <1>2, <1>3, <1>7, <2>1 DEF ServedAtTarget, TargetOf
  <2>. QED BY <1>4, <2>2, <2>3, <2>4, <2>5, <2>6, InvParts DEF DatabaseInv
<1>. QED BY <1>6, <1>7

-----------------------------------------------------------------------------
(* Errors, closings and workers that end.                                  *)

\* A termination undoes the worker's migration and takes up its requests.
LEMMA TerminatedDatabase ==
  ASSUME RepoInv, NEW w \in Workers, NEW x, Terminated(w, x),
         mig.session # None /\ ~Migrating(w) => tier'[mig.session] = tier[mig.session]
  PROVE  DatabaseInv'
<1>1. \A v \in db' : v \in db /\ owner' = owner
  BY DEF Terminated, RepoInv, DatabaseInv, ServedAtTarget
<1>2. CASE Migrating(w)
  BY <1>1, <1>2, DatabaseReset DEF Terminated
<1>3. CASE ~Migrating(w)
  <2>1. UNCHANGED dbVars
    BY <1>3 DEF Terminated, dbVars
  <2>2. mig.session # None => WorkerOf(mig.session)' = WorkerOf(mig.session)
    BY <1>3, <2>1 DEF Terminated, Migrating, WorkerOf, dbVars
  <2>. QED BY <1>1, <2>1, <2>2, DatabaseFrame
<1>. QED BY <1>2, <1>3

LEMMA TerminatedTypes ==
  ASSUME RepoInv, NEW w \in Workers, NEW x, Terminated(w, x)
  PROVE  WorkerTypes' /\ RequestTypes' /\ DiskTypes'
<1>1. WorkerTypes'
  BY DEF Terminated, RepoInv, TypeOK, WorkerTypes
<1>2. DiskTypes'
  BY DEF Terminated, RepoInv, TypeOK, DiskTypes
<1>3. call' \in [Sessions -> [Ops -> Stages]]
  BY DEF Terminated, RepoInv, TypeOK, Stages
<1>4. ASSUME mig'.session # None PROVE call'[mig'.session][mig'.op] = "migrate"
  <2>1. ~Migrating(w) /\ mig' = mig
    BY <1>4 DEF Terminated, NoMigration
  <2>2. mig.session \in Sessions /\ mig.op \in Ops /\ WorkerOf(mig.session) # w
    BY <1>4, <2>1, Migrator DEF Migrating
  <2>. QED BY <1>4, <2>1, <2>2, Migrator DEF Terminated
<1>5. mig' \in [session: Sessions \cup {None}, op: Ops, phase: {"begin", "ran", "stamped"}]
  BY DEF Terminated, RepoInv, TypeOK, NoMigration, Ops
<1>. QED BY <1>1, <1>2, <1>3, <1>4, <1>5 DEF RequestTypes

\* The requests that are left are in workers that run.
LEMMA TerminatedRequests ==
  ASSUME RepoInv, NEW w \in Workers, NEW x, Terminated(w, x),
         \A s \in Sessions : tier'[s] = tier[s] \/ \A op \in Ops : call'[s][op] = "none"
  PROVE  RequestInv'
<1>. SUFFICES ASSUME NEW s \in Sessions, NEW op \in Ops,
                     call'[s][op] \in {"install", "opened", "migrate"}
              PROVE  RequestOK(s, op)'
  BY DEF RequestInv, RequestOK
<1>1. call'[s][op] = call[s][op] /\ WorkerOf(s) # w
  BY DEF Terminated
<1>2. tier'[s] = tier[s]
  OBVIOUS
<1>3. WorkerOf(s)' = WorkerOf(s)
  BY <1>1, <1>2 DEF Terminated, WorkerOf
<1>4. RequestOK(s, op)
  BY DEF RepoInv, RequestInv
<1>. QED BY <1>1, <1>3, <1>4 DEF Terminated, RequestOK

LEMMA SharedGonePreserves ==
  ASSUME RepoInv, NEW b \in Builds, SharedGone(b)
  PROVE  RepoInv'
<1>1. /\ b \in Workers /\ Terminated(b, b)
      /\ UNCHANGED <<shared, locks, faults, mounted, status, pc, tier>>
  BY DEF SharedGone, Workers, pageVars
<1>2. PageTypes'
  BY <1>1 DEF RepoInv, TypeOK, PageTypes
<1>3. LadderInv'
  <2>1. leader' = leader /\ alive' = alive \ {b} /\ b \notin Sessions
    BY <1>1, NameAssumption DEF Terminated, RepoInv, TypeOK
  <2>2. NothingLeftRunning'
    BY <1>1, <2>1, NameAssumption DEF RepoInv, TypeOK, LadderInv, NothingLeftRunning
  <2>3. \A s \in Sessions, op \in Ops :
          call'[s][op] = call[s][op] \/ (call[s][op] # "none" /\ call'[s][op] \in {"none", "sent"})
    BY <1>1 DEF Terminated
  <2>4. ASSUME NEW s \in Sessions PROVE LadderOK(s)'
    BY <1>1, <2>3 DEF RepoInv, LadderInv, LadderOK, Ops
  <2>. QED BY <2>2, <2>4 DEF LadderInv
<1>. QED BY <1>1, <1>2, <1>3, TerminatedTypes, TerminatedDatabase, TerminatedRequests, InvParts

\* Only the tier of a session all of whose other requests are over may change.
TierKept(s, op) ==
  /\ \A x \in Sessions \ {s} : tier'[x] = tier[x]
  /\ tier'[s] = tier[s] \/ \A o \in Ops \ {op} : call[s][o] = "none"

\* A request that is over leaves the worker and the others as they are.
LEMMA OverPreserves ==
  ASSUME RepoInv, NEW s \in Sessions, NEW op \in Ops, Over(s, op), TierKept(s, op),
         UNCHANGED <<alive, db, leader, owner, disk>>
  PROVE  /\ WorkerTypes' /\ RequestTypes' /\ DiskTypes' /\ RequestInv' /\ DatabaseInv'
         /\ call'[s][op] = "none"
         /\ \A x \in Sessions, o \in Ops : call'[x][o] = call[x][o] \/ (x = s /\ o = op)
<1>1. call' = [call EXCEPT ![s][op] = "none"] /\ call \in [Sessions -> [Ops -> Stages]]
  BY DEF Over, RepoInv, TypeOK
<1>2. /\ call' \in [Sessions -> [Ops -> Stages]] /\ call'[s][op] = "none"
      /\ \A x \in Sessions, o \in Ops : call'[x][o] = call[x][o] \/ (x = s /\ o = op)
  BY <1>1, CallUpdate DEF Stages
<1>3. WorkerTypes' /\ DiskTypes'
  BY DEF Over, RepoInv, TypeOK, WorkerTypes, DiskTypes
<1>4. RequestInv'
  <2>. SUFFICES ASSUME NEW x \in Sessions, NEW o \in Ops, call'[x][o] # "none"
                PROVE  RequestOK(x, o)'
    BY DEF RequestInv, RequestOK
  <2>1. call'[x][o] = call[x][o] /\ tier'[x] = tier[x]
    BY <1>2 DEF TierKept
  <2>2. WorkerOf(x)' = WorkerOf(x)
    BY <2>1 DEF WorkerOf
  <2>. QED BY <2>1, <2>2 DEF RepoInv, RequestInv, RequestOK
<1>5. CASE mig.session = s /\ mig.op = op
  <2>1. mig' = NoMigration
    BY <1>5 DEF Over
  <2>2. RequestTypes'
    BY <1>2, <2>1 DEF RequestTypes, NoMigration, Ops
  <2>3. DatabaseInv'
    BY <2>1, DatabaseReset
  <2>. QED BY <1>2, <1>3, <1>4, <2>2, <2>3
<1>6. CASE ~(mig.session = s /\ mig.op = op)
  <2>1. UNCHANGED <<mig, txn>>
    BY <1>6 DEF Over
  <2>2. mig.session # None => call'[mig.session][mig.op] = "migrate"
    BY <1>2, <1>6, Migrator
  <2>3. RequestTypes'
    BY <1>2, <2>1, <2>2 DEF RepoInv, TypeOK, RequestTypes
  <2>4. mig.session # None => tier'[mig.session] = tier[mig.session]
    BY <1>6, Migrator DEF TierKept
  <2>5. mig.session # None => WorkerOf(mig.session)' = WorkerOf(mig.session)
    BY <2>1, <2>4 DEF WorkerOf
  <2>6. DatabaseInv'
    BY <2>1, <2>5, DatabaseFrame DEF dbVars
  <2>. QED BY <1>2, <1>3, <1>4, <2>3, <2>6
<1>. QED BY <1>5, <1>6

\* A session's own worker serves that session.
LEMMA OwnWorker ==
  ASSUME RepoInv, NEW s \in Sessions
  PROVE  (s \in alive => WorkerOf(s) = s) /\ (leader = s => s \in alive)
BY NameAssumption DEF RepoInv, LadderInv, NothingLeftRunning, WorkerOf

\* client.terminate() ends the session's own worker, and its lead with it.
LEMMA TerminatePreserves ==
  ASSUME RepoInv, NEW s \in Sessions, NEW op \in Ops, Terminate(s, op), TierKept(s, op)
  PROVE  /\ WorkerTypes' /\ RequestTypes' /\ DiskTypes' /\ RequestInv' /\ DatabaseInv'
         /\ call'[s][op] = "none"
         /\ \A x \in Sessions, o \in Ops :
              call'[x][o] = call[x][o] \/ (call[x][o] # "none" /\ call'[x][o] \in {"none", "sent"})
         /\ alive' = alive \ {s} /\ leader' = IF leader = s THEN None ELSE leader
<1>1. CASE s \in alive
  <2>1. Terminated(s, s) /\ s \in Workers /\ WorkerOf(s) = s
    BY <1>1, OwnWorker DEF Terminate, Workers
  <2>2. \A o \in Ops : call'[s][o] = "none"
    BY <2>1 DEF Terminated
  <2>3. mig.session # None /\ ~Migrating(s) => tier'[mig.session] = tier[mig.session]
    BY <2>1, Migrator DEF TierKept, Migrating
  <2>4. \A x \in Sessions : tier'[x] = tier[x] \/ \A o \in Ops : call'[x][o] = "none"
    BY <2>2 DEF TierKept
  <2>5. \A x \in Sessions, o \in Ops :
          call'[x][o] = call[x][o] \/ (call[x][o] # "none" /\ call'[x][o] \in {"none", "sent"})
    BY <2>1 DEF Terminated
  <2>6. alive' = alive \ {s} /\ leader' = IF leader = s THEN None ELSE leader
    BY <2>1 DEF Terminated
  <2>. QED BY <2>1, <2>2, <2>3, <2>4, <2>5, <2>6, TerminatedTypes, TerminatedDatabase,
             TerminatedRequests
<1>2. CASE s \notin alive
  <2>1. Over(s, op) /\ UNCHANGED <<alive, db, leader, owner, disk>> /\ leader # s
    BY <1>2, OwnWorker DEF Terminate
  <2>2. alive' = alive \ {s} /\ leader' = IF leader = s THEN None ELSE leader
    BY <1>2, <2>1
  <2>. QED BY <2>1, <2>2, OverPreserves
<1>. QED BY <1>1, <1>2

\* After it the session may be anywhere it needs no worker.
LEMMA TerminateLadder ==
  ASSUME RepoInv, NEW s \in Sessions, NEW op \in Ops, Terminate(s, op), TierKept(s, op),
         NEW p \in {"next", "last", "ended"}, pc[s] \notin {"none", "ended"},
         pc' = [pc EXCEPT ![s] = p], UNCHANGED mounted,
         status' = status \/ (p = "ended" /\ status' = [status EXCEPT ![s] = "error"]),
         p = "ended" \/ (op = "boot" /\ pc[s] \in {"whenReady", "boot"} /\ tier'[s] = "none"),
         tier' \in [Sessions -> {"none", "shared", "leader", "dedicated"}]
  PROVE  LadderInv'
<1>1. NothingLeftRunning'
  BY NameAssumption, TerminatePreserves
  DEF RepoInv, TypeOK, LadderInv, NothingLeftRunning, TierKept
<1>2. ASSUME NEW x \in Sessions, x # s PROVE LadderOK(x)'
  <2>1. \A o \in Ops : call'[x][o] = call[x][o] \/ (call[x][o] # "none" /\ call'[x][o] \in {"none", "sent"})
    BY TerminatePreserves
  <2>2. tier'[x] = tier[x] /\ pc'[x] = pc[x] /\ status'[x] = status[x]
    BY <1>2 DEF TierKept, RepoInv, TypeOK
  <2>. QED BY <2>1, <2>2 DEF RepoInv, LadderInv, LadderOK, Ops
<1>3. LadderOK(s)'
  <2>1. /\ \A o \in Ops : call'[s][o] = call[s][o] \/ (call[s][o] # "none" /\ call'[s][o] \in {"none", "sent"})
        /\ call'[s][op] = "none"
    BY TerminatePreserves
  <2>2. pc'[s] = p /\ mounted'[s] # "no"
    BY DEF RepoInv, TypeOK, LadderInv, LadderOK
  <2>3. CASE p = "ended"
    BY <2>1, <2>2, <2>3 DEF RepoInv, LadderInv, LadderOK, Ops
  <2>4. CASE p # "ended"
    BY <2>1, <2>2, <2>4 DEF RepoInv, LadderInv, LadderOK, Ops
  <2>. QED BY <2>3, <2>4
<1>. QED BY <1>1, <1>2, <1>3 DEF LadderInv

LEMMA BootRejectedPreserves ==
  ASSUME RepoInv, NEW s \in Sessions, NEW noOpfs \in BOOLEAN, pc[s] = "boot",
         BootRejected(s, noOpfs), UNCHANGED <<shared, locks, mounted>>, faults' \in 0 .. MaxFaults
  PROVE  RepoInv'
<1>. DEFINE p == IF tier[s] = "shared" /\ noOpfs THEN "next"
                 ELSE IF tier[s] = "leader" THEN "last" ELSE "ended"
<1>1. /\ Terminate(s, "boot") /\ pc' = [pc EXCEPT ![s] = p] /\ p \in {"next", "last", "ended"}
      /\ IF p = "ended" THEN HookRejected(s) /\ tier' = tier
         ELSE tier' = [tier EXCEPT ![s] = "none"] /\ status' = status
  BY DEF BootRejected, Goto, MoveTo
<1>2. call[s]["write"] = "none" /\ call[s]["close"] = "none" /\ "boot" \in Ops
  BY DEF RepoInv, LadderInv, LadderOK, Ops
<1>3. /\ tier' \in [Sessions -> {"none", "shared", "leader", "dedicated"}]
      /\ p # "ended" => tier'[s] = "none"
      /\ \A x \in Sessions \ {s} : tier'[x] = tier[x]
  BY <1>1 DEF RepoInv, TypeOK
<1>4. TierKept(s, "boot")
  BY <1>2, <1>3 DEF TierKept, Ops
<1>5. status' = status \/ (p = "ended" /\ status' = [status EXCEPT ![s] = "error"])
  BY <1>1 DEF HookRejected, SetStatus
<1>6. PageTypes'
  <2>1. pc' \in [Sessions -> {"none", "wasm", "next", "whenReady", "last", "boot", "up", "ended"}]
    BY <1>1 DEF RepoInv, TypeOK
  <2>2. status' \in [Sessions -> {"idle", "loading", "ready", "error"}]
    BY <1>5 DEF RepoInv, TypeOK
  <2>. QED BY <1>3, <2>1, <2>2 DEF RepoInv, TypeOK, PageTypes
<1>. HIDE DEF p
<1>7. LadderInv'
  BY <1>1, <1>2, <1>3, <1>4, <1>5, TerminateLadder
<1>. QED BY <1>1, <1>2, <1>4, <1>6, <1>7, TerminatePreserves, InvParts

\* An error is answered: the ladder goes on, the hook shows it, or only the
\* request is over.
LEMMA ErrorPreserves ==
  ASSUME RepoInv, NEW s \in Sessions, NEW op \in Ops, NEW noOpfs \in BOOLEAN,
         AnsweredError(s, op, noOpfs), UNCHANGED <<shared, locks, mounted>>,
         faults' \in 0 .. MaxFaults
  PROVE  RepoInv'
<1>1. CASE op = "boot" /\ pc[s] = "boot"
  BY <1>1, BootRejectedPreserves DEF AnsweredError
<1>2. CASE ~(op = "boot" /\ pc[s] = "boot")
  <2>1. Over(s, op) /\ UNCHANGED <<pc, status, tier, alive, db, leader, owner, disk>>
    BY <1>2 DEF AnsweredError
  <2>2. TierKept(s, op)
    BY <2>1 DEF TierKept
  <2>3. PageTypes'
    BY <2>1 DEF RepoInv, TypeOK, PageTypes
  <2>4. LadderInv'
    BY <2>1, <2>2, OverPreserves DEF RepoInv, LadderInv, LadderOK, NothingLeftRunning, Ops
  <2>. QED BY <2>1, <2>2, <2>3, <2>4, OverPreserves, InvParts
<1>. QED BY <1>1, <1>2

LEMMA InstallFailsPreserves ==
  ASSUME RepoInv, NEW s \in Sessions, NEW op \in Ops, InstallFails(s, op)
  PROVE  RepoInv'
<1>1. faults' \in 0 .. MaxFaults
  BY FaultAssumption DEF InstallFails, Fault, RepoInv, TypeOK
<1>. QED BY <1>1, ErrorPreserves DEF InstallFails

LEMMA RefusedPreserves ==
  ASSUME RepoInv, NEW s \in Sessions, NEW op \in Ops, Refused(s, op)
  PROVE  RepoInv'
<1>1. faults' \in 0 .. MaxFaults
  BY DEF Refused, RepoInv, TypeOK
<1>. QED BY <1>1, ErrorPreserves DEF Refused

LEMMA MigrationFailsPreserves ==
  ASSUME RepoInv, NEW s \in Sessions, NEW op \in Ops, MigrationFails(s, op)
  PROVE  RepoInv'
<1>1. faults' \in 0 .. MaxFaults
  BY FaultAssumption DEF MigrationFails, Fault, RepoInv, TypeOK
<1>. QED BY <1>1, ErrorPreserves DEF MigrationFails

LEMMA WhenReadyFailsPreserves ==
  ASSUME RepoInv, NEW s \in Sessions, WhenReadyFails(s)
  PROVE  RepoInv'
<1>1. /\ pc[s] = "whenReady" /\ pc' = [pc EXCEPT ![s] = "last"]
      /\ tier' = [tier EXCEPT ![s] = "none"] /\ Terminate(s, "boot")
      /\ UNCHANGED <<shared, locks, mounted, status>>
  BY DEF WhenReadyFails, Goto, MoveTo
<1>2. call[s]["write"] = "none" /\ call[s]["close"] = "none" /\ "boot" \in Ops
  BY <1>1 DEF RepoInv, LadderInv, LadderOK, Ops
<1>3. /\ tier' \in [Sessions -> {"none", "shared", "leader", "dedicated"}] /\ tier'[s] = "none"
      /\ TierKept(s, "boot")
  BY <1>1, <1>2 DEF RepoInv, TypeOK, TierKept, Ops
<1>4. PageTypes'
  BY <1>1, <1>3, FaultAssumption DEF RepoInv, TypeOK, PageTypes, WhenReadyFails, Fault
<1>5. LadderInv'
  BY <1>1, <1>2, <1>3, TerminateLadder
<1>. QED BY <1>1, <1>2, <1>3, <1>4, <1>5, TerminatePreserves, InvParts

LEMMA ClosesPreserves ==
  ASSUME RepoInv, NEW s \in Sessions, Closes(s)
  PROVE  RepoInv'
<1>1. /\ UNCHANGED <<shared, locks, mounted, status, tier, faults>>
      /\ "close" \in Ops /\ TierKept(s, "close")
  BY DEF Closes, Ops, TierKept
<1>2. CASE pc[s] = "up"
  <2>1. Terminate(s, "close") /\ pc' = [pc EXCEPT ![s] = "ended"]
    BY <1>2 DEF Closes, Goto
  <2>2. PageTypes'
    BY <1>1, <2>1 DEF RepoInv, TypeOK, PageTypes
  <2>3. tier' \in [Sessions -> {"none", "shared", "leader", "dedicated"}]
    BY <1>1 DEF RepoInv, TypeOK
  <2>4. LadderInv'
    BY <1>1, <1>2, <2>1, <2>3, TerminateLadder
  <2>. QED BY <1>1, <2>1, <2>2, <2>4, TerminatePreserves, InvParts
<1>3. CASE pc[s] # "up"
  <2>1. Over(s, "close") /\ UNCHANGED <<pc, alive, db, leader, owner, disk>>
    BY <1>3 DEF Closes
  <2>2. PageTypes'
    BY <1>1, <2>1 DEF RepoInv, TypeOK, PageTypes
  <2>3. LadderInv'
    BY <1>1, <2>1, OverPreserves DEF RepoInv, LadderInv, LadderOK, NothingLeftRunning, Ops
  <2>. QED BY <1>1, <2>1, <2>2, <2>3, OverPreserves, InvParts
<1>. QED BY <1>2, <1>3

LEMMA PageGonePreserves ==
  ASSUME RepoInv, NEW s \in Sessions, PageGone(s)
  PROVE  RepoInv'
<1>1. /\ pc[s] \notin {"none", "ended"} /\ pc' = [pc EXCEPT ![s] = "ended"]
      /\ mounted' = [mounted EXCEPT ![s] = "gone"]
      /\ UNCHANGED <<shared, locks, status, tier, faults>>
  BY DEF PageGone, Goto
<1>2. PageTypes'
  BY <1>1 DEF RepoInv, TypeOK, PageTypes
<1>3. CASE s \in alive
  <2>1. Terminated(s, s) /\ s \in Workers /\ WorkerOf(s) = s
    BY <1>3, OwnWorker DEF PageGone, Workers
  <2>2. WorkerTypes' /\ RequestTypes' /\ DiskTypes' /\ RequestInv' /\ DatabaseInv'
    BY <1>1, <2>1, TerminatedTypes, TerminatedDatabase, TerminatedRequests
  <2>3. NothingLeftRunning'
    BY <1>1, <2>1, NameAssumption
    DEF Terminated, RepoInv, TypeOK, LadderInv, NothingLeftRunning
  <2>4. \A x \in Sessions, o \in Ops :
          call'[x][o] = call[x][o] \/ (call[x][o] # "none" /\ call'[x][o] \in {"none", "sent"})
    BY <2>1 DEF Terminated
  <2>5. ASSUME NEW x \in Sessions PROVE LadderOK(x)'
    BY <1>1, <2>4 DEF RepoInv, TypeOK, LadderInv, LadderOK, Ops
  <2>. QED BY <1>2, <2>2, <2>3, <2>5, InvParts DEF LadderInv
<1>4. CASE s \notin alive
  <2>1. /\ call' = [call EXCEPT ![s] = IF WorkerOf(s) \in alive THEN @ ELSE NoCalls]
        /\ UNCHANGED <<alive, db, leader, owner, mig, txn, disk>>
    BY <1>4 DEF PageGone
  <2>2. /\ call' \in [Sessions -> [Ops -> Stages]]
        /\ \A x \in Sessions, o \in Ops :
             call'[x][o] = call[x][o] \/ (x = s /\ WorkerOf(s) \notin alive /\ call'[x][o] = "none")
    BY <2>1 DEF RepoInv, TypeOK, NoCalls, Stages
  <2>3. WorkerTypes' /\ DiskTypes'
    BY <2>1 DEF RepoInv, TypeOK, WorkerTypes, DiskTypes
  <2>4. mig.session # None => call'[mig.session][mig.op] = "migrate"
    BY <2>2, Migrator
  <2>5. RequestTypes'
    BY <2>1, <2>2, <2>4 DEF RepoInv, TypeOK, RequestTypes
  <2>6. LadderInv'
    <3>1. NothingLeftRunning'
      BY <1>1, <1>4, <2>1 DEF RepoInv, TypeOK, LadderInv, NothingLeftRunning
    <3>2. ASSUME NEW x \in Sessions PROVE LadderOK(x)'
      BY <1>1, <2>2 DEF RepoInv, TypeOK, LadderInv, LadderOK, Ops
    <3>. QED BY <3>1, <3>2 DEF LadderInv
  <2>7. RequestInv'
    BY <1>1, <2>1, <2>2 DEF RepoInv, RequestInv, RequestOK, WorkerOf
  <2>8. DatabaseInv'
    BY <1>1, <2>1, DatabaseFrame DEF WorkerOf, dbVars
  <2>. QED BY <1>2, <2>3, <2>5, <2>6, <2>7, <2>8, InvParts
<1>. QED BY <1>3, <1>4

-----------------------------------------------------------------------------
(* The theorems.                                                           *)

LEMMA RepoInvariant == Spec => []RepoInv
<1>1. Init => RepoInv
  <2>. SUFFICES ASSUME Init PROVE RepoInv
    OBVIOUS
  <2>1. EmptyDisk \in Disks
    BY BuildAssumption DEF EmptyDisk, Disks
  <2>2. TypeOK
    BY <2>1, NameAssumption, FaultAssumption
    DEF Init, TypeOK, NoCalls, Stages, NoMigration, Ops, Workers
  <2>3. LadderInv /\ RequestInv
    BY DEF Init, LadderInv, LadderOK, NothingLeftRunning, RequestInv, RequestOK, NoCalls, Ops
  <2>4. DatabaseInv
    BY BuildAssumption
    DEF Init, DatabaseInv, MigratedOnce, ServedAtTarget, MigrationInv, EmptyDisk, NoMigration
  <2>. QED BY <2>2, <2>3, <2>4 DEF RepoInv
<1>2. RepoInv /\ [Next]_vars => RepoInv'
  <2>1. ASSUME RepoInv, UNCHANGED vars PROVE RepoInv'
    <3>1. TypeOK'
      BY <2>1 DEF vars, RepoInv, TypeOK
    <3>2. LadderInv' /\ RequestInv'
      BY <2>1 DEF vars, RepoInv, LadderInv, LadderOK, NothingLeftRunning, RequestInv,
         RequestOK, WorkerOf
    <3>3. DatabaseInv'
      BY <2>1 DEF vars, RepoInv, DatabaseInv, MigratedOnce, ServedAtTarget, MigrationInv,
         RanUpTo, WorkerOf, TargetOf
    <3>. QED BY <3>1, <3>2, <3>3 DEF RepoInv
  <2>2. ASSUME RepoInv, NEW s \in Sessions, WorkerStep(s) PROVE RepoInv'
    BY <2>2, ClosesPreserves, ServedPreserves, LazyOpenPreserves, InstallPreserves,
       InstallFailsPreserves, OpenedPreserves, RefusedPreserves, BeginMigrationsPreserves,
       UpSqlPreserves, StampPreserves, CommitPreserves, MigrationFailsPreserves DEF WorkerStep
  <2>3. ASSUME RepoInv, NEW s \in Sessions, LadderStep(s) PROVE RepoInv'
    BY <2>3, TrySharedPreserves, TryLeaderPreserves, TryDedicatedPreserves,
       WasmFailsPreserves, WhenReadyPreserves, WhenReadyFailsPreserves DEF LadderStep
  <2>. QED BY <2>1, <2>2, <2>3, MountPreserves, UnmountPreserves, WritePreserves,
             PageGonePreserves, ElectPreserves, SharedGonePreserves, ZombieGonePreserves DEF Next
<1>. QED BY <1>1, <1>2, PTL DEF Spec

\* Every reachable state of the sessions, workers and the schema is well
\* typed, for any sessions, builds, schema versions and number of failures.
THEOREM TypeCorrect == Spec => []TypeOK
<1>1. RepoInv => TypeOK
  BY DEF RepoInv
<1>. QED BY <1>1, RepoInvariant, PTL

\* Wherever a worker is terminated, a step fails or two openings race, each
\* migration up to the version on disk has run exactly once, for any number
\* of versions.
THEOREM MigrationsRunOnce == Spec => []MigratedOnce
<1>1. RepoInv => MigratedOnce
  BY DEF RepoInv, DatabaseInv
<1>. QED BY <1>1, RepoInvariant, PTL

\* Any number of sessions of any number of builds on three tiers: a handler
\* runs only in the thread that has the files and at its build's schema.
THEOREM HandlersAtTarget == Spec => []ServedAtTarget
<1>1. RepoInv => ServedAtTarget
  BY DEF RepoInv, DatabaseInv
<1>. QED BY <1>1, RepoInvariant, PTL

\* Whatever way a session ends or goes on along the ladder, it leaves behind
\* no worker of its own and no lock.
THEOREM NoWorkerLeft == Spec => []NothingLeftRunning
<1>1. RepoInv => NothingLeftRunning
  BY DEF RepoInv, LadderInv
<1>. QED BY <1>1, RepoInvariant, PTL
==================================================================================

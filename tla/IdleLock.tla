------------------------------- MODULE IdleLock -------------------------------
(***************************************************************************)
(* Locking the vault when no tab is in use: IdleLockCoordinator and the    *)
(* hook that wires it to DOM events, setInterval and the BroadcastChannel  *)
(* "opfs-vault", with the part of AuthScreen that unlocks and locks.       *)
(*                                                                         *)
(* Time is discrete.  The browser delivers a message within Delay and      *)
(* fires a timer within Late of its due time: the clock does not move on   *)
(* before.                                                                 *)
(***************************************************************************)
EXTENDS Naturals, Sequences

CONSTANTS
  Tabs,
  IdleMs,        \* IDLE_MS_DEFAULT
  HeartbeatMs,   \* HEARTBEAT_INTERVAL_MS, also the period of the tick
  Delay,         \* how long a message may take
  Late,          \* how late a timer may fire
  MaxTime,       \* bound: the clock stops here
  MaxQueue       \* bound: a vault is unlocked only while every tab has fewer
                 \* messages waiting

ASSUME TimesAssumption ==
  /\ IdleMs \in Nat \ {0} /\ HeartbeatMs \in Nat \ {0}
  /\ Delay \in Nat /\ Late \in Nat /\ MaxTime \in Nat /\ MaxQueue \in Nat

VARIABLES
  now,
  screen,             \* AuthScreen: "locked", "unlocked", or "leaving" once
                      \* doLock has run and React has yet to unmount the shell
  lastActivity,       \* IdleLockCoordinator.#lastActivity
  lastHeartbeatSent,  \* IdleLockCoordinator.#lastHeartbeatSent
  locked,             \* IdleLockCoordinator.#locked
  due,                \* when the interval fires next
  inbox,              \* messages on their way to a tab's channel
  lastUse             \* history: the last user event in an unlocked tab

coordVars == <<lastActivity, lastHeartbeatSent, locked>>
vars == <<now, screen, coordVars, due, inbox, lastUse>>

Mounted(t) == screen[t] # "locked"
Open(t) == screen[t] = "unlocked"

Message(kind) == [kind |-> kind, sent |-> now]
\* channel.postMessage reaches every other mounted hook.
Publish(t, kind) ==
  [u \in Tabs |-> IF u # t /\ Mounted(u) THEN Append(inbox[u], Message(kind)) ELSE inbox[u]]

-----------------------------------------------------------------------------
(* IdleLockCoordinator.                                                    *)

\* Mutant: every activity restarts the interval, a debounce.
NoteActivityDebounced(t, sent) ==
  /\ lastActivity' = [lastActivity EXCEPT ![t] = now]
  /\ lastHeartbeatSent' = [lastHeartbeatSent EXCEPT ![t] = now]
  /\ inbox' = IF now >= sent + HeartbeatMs THEN Publish(t, "vault-heartbeat") ELSE inbox
\* noteActivity of a coordinator that last sent a heartbeat at `sent'.
NoteActivity(t, sent) ==
  /\ lastActivity' = [lastActivity EXCEPT ![t] = now]
  /\ \/ /\ now >= sent + HeartbeatMs
        /\ lastHeartbeatSent' = [lastHeartbeatSent EXCEPT ![t] = now]
        /\ inbox' = Publish(t, "vault-heartbeat")
     \/ /\ now < sent + HeartbeatMs
        /\ lastHeartbeatSent' = [lastHeartbeatSent EXCEPT ![t] = sent]
        /\ UNCHANGED inbox

\* Mutant: the screen does not become the locked one.
OnLockBusy(t) ==
  /\ locked' = [locked EXCEPT ![t] = TRUE]
  /\ screen' = [screen EXCEPT ![t] = "busy"]
\* The coordinator fires: doLock frees the vault.
OnLock(t) ==
  /\ locked' = [locked EXCEPT ![t] = TRUE]
  /\ screen' = [screen EXCEPT ![t] = "leaving"]

\* A DOM event or a visibility change.
UserEvent(t) ==
  /\ Open(t) /\ ~locked[t]
  /\ NoteActivity(t, lastHeartbeatSent[t])
  /\ lastUse' = now
  /\ UNCHANGED <<now, screen, locked, due>>

\* Mutant: a heartbeat counts as activity of this tab and is passed on.
HeardEchoed(t) ==
  /\ lastActivity' = [lastActivity EXCEPT ![t] = now]
  /\ inbox' = [Publish(t, "vault-heartbeat") EXCEPT ![t] = Tail(@)]
\* A sibling's heartbeat resets the idle clock and is not passed on.
Heard(t) ==
  /\ lastActivity' = [lastActivity EXCEPT ![t] = now]
  /\ inbox' = [inbox EXCEPT ![t] = Tail(@)]

\* receive; a coordinator that has locked ignores the message.
Receive(t) ==
  /\ Mounted(t) /\ inbox[t] # <<>>
  /\ \/ /\ ~locked[t] /\ Head(inbox[t]).kind = "vault-heartbeat"
        /\ Heard(t)
        /\ UNCHANGED <<screen, locked>>
     \/ /\ ~locked[t] /\ Head(inbox[t]).kind = "vault-locked"
        /\ OnLock(t)
        /\ inbox' = [inbox EXCEPT ![t] = Tail(@)]
        /\ UNCHANGED lastActivity
     \/ /\ locked[t]
        /\ inbox' = [inbox EXCEPT ![t] = Tail(@)]
        /\ UNCHANGED <<lastActivity, screen, locked>>
  /\ UNCHANGED <<now, lastHeartbeatSent, due, lastUse>>

Idle(t) == now >= lastActivity[t] + IdleMs

\* The interval fires: tick.
Tick(t) ==
  /\ Mounted(t) /\ now >= due[t]
  /\ due' = [due EXCEPT ![t] = now + HeartbeatMs]
  /\ \/ /\ ~locked[t] /\ Idle(t)
        /\ OnLock(t)
        /\ inbox' = Publish(t, "vault-locked")
     \/ /\ locked[t] \/ ~Idle(t)
        /\ UNCHANGED <<screen, locked, inbox>>
  /\ UNCHANGED <<now, lastActivity, lastHeartbeatSent, lastUse>>

-----------------------------------------------------------------------------
(* The hook and AuthScreen.                                                *)

\* doUnlock or doEnroll succeeds and NotesShell mounts: a new channel, a new
\* coordinator with #lastHeartbeatSent = 0, one noteActivity, the interval.
Unlock(t) ==
  /\ screen[t] = "locked"
  /\ \A u \in Tabs : Len(inbox[u]) < MaxQueue
  /\ screen' = [screen EXCEPT ![t] = "unlocked"]
  /\ locked' = [locked EXCEPT ![t] = FALSE]
  /\ NoteActivity(t, 0)
  /\ due' = [due EXCEPT ![t] = now + HeartbeatMs]
  /\ lastUse' = now
  /\ UNCHANGED now

\* The shell unmounts: the effect's clean-up clears the interval and closes
\* the channel, and the coordinator is discarded.
Unmount(t) ==
  /\ screen' = [screen EXCEPT ![t] = "locked"]
  /\ inbox' = [inbox EXCEPT ![t] = <<>>]
  /\ lastActivity' = [lastActivity EXCEPT ![t] = 0]
  /\ lastHeartbeatSent' = [lastHeartbeatSent EXCEPT ![t] = 0]
  /\ locked' = [locked EXCEPT ![t] = FALSE]
  /\ due' = [due EXCEPT ![t] = 0]
  /\ UNCHANGED <<now, lastUse>>

\* React renders the locked screen after the coordinator's doLock.
Rendered(t) == screen[t] = "leaving" /\ Unmount(t)
\* The lock button, whose render follows in the same task; nothing is
\* published.  A tab that closes goes the same way.
LockButton(t) == Open(t) /\ Unmount(t)

Advance ==
  /\ now < MaxTime
  /\ \A t \in Tabs : Mounted(t) =>
       /\ now < due[t] + Late
       /\ \A i \in 1 .. Len(inbox[t]) : now < inbox[t][i].sent + Delay
  /\ now' = now + 1
  /\ UNCHANGED <<screen, coordVars, due, inbox, lastUse>>

\* Date.now() is far beyond one heartbeat when the first tab opens.
Init ==
  /\ now = HeartbeatMs
  /\ screen = [t \in Tabs |-> "locked"]
  /\ lastActivity = [t \in Tabs |-> 0]
  /\ lastHeartbeatSent = [t \in Tabs |-> 0]
  /\ locked = [t \in Tabs |-> FALSE]
  /\ due = [t \in Tabs |-> 0]
  /\ inbox = [t \in Tabs |-> <<>>]
  /\ lastUse = 0

TabStep(t) ==
  UserEvent(t) \/ Receive(t) \/ Tick(t) \/ Unlock(t) \/ Rendered(t) \/ LockButton(t)

Next == (\E t \in Tabs : TabStep(t)) \/ Advance

Spec == Init /\ [][Next]_vars

-----------------------------------------------------------------------------
(* Properties.                                                             *)

Messages == [kind: {"vault-heartbeat", "vault-locked"}, sent: Nat]
\* The variables hold values of their types.
TypeOK ==
  /\ now \in Nat /\ lastUse \in Nat
  /\ screen \in [Tabs -> {"locked", "unlocked", "leaving"}]
  /\ lastActivity \in [Tabs -> Nat]
  /\ lastHeartbeatSent \in [Tabs -> Nat]
  /\ locked \in [Tabs -> BOOLEAN]
  /\ due \in [Tabs -> Nat]
  /\ inbox \in [Tabs -> Seq(Messages)]

\* No vault stays open when nobody uses any tab: heartbeats reset a sibling's
\* idle clock, and must not keep two idle tabs awake for each other.
LockedInTime ==
  \A t \in Tabs : Open(t) => now < lastUse + Delay + IdleMs + HeartbeatMs + Late

HeartbeatQueued(t) ==
  \E i \in 1 .. Len(inbox[t]) : inbox[t][i].kind = "vault-heartbeat"

\* While the user works in one tab every other one is told, although
\* noteActivity sends at most one heartbeat per interval: an idle clock lags
\* behind the last user event of any tab by less than one interval, unless a
\* heartbeat is on its way.
AwareOfUse ==
  \A t \in Tabs : Open(t) /\ ~HeartbeatQueued(t) => lastUse < lastActivity[t] + HeartbeatMs
=============================================================================

---------------------------- MODULE IdleLockProofs ----------------------------
(***************************************************************************)
(* The idle lock for any number of tabs and any durations: an open vault   *)
(* is locked in time, and every idle clock follows the use of any tab.     *)
(***************************************************************************)
EXTENDS IdleLock, SequenceTheorems, TLAPS

-----------------------------------------------------------------------------
(* What a step does to the queues.                                         *)

LEMMA Queues ==
  ASSUME TypeOK, NEW t \in Tabs, NEW kind \in {"vault-heartbeat", "vault-locked"}
  PROVE  /\ Message(kind) \in Messages
         /\ Publish(t, kind) \in [Tabs -> Seq(Messages)]
         /\ inbox[t] # <<>> =>
              [inbox EXCEPT ![t] = Tail(@)] \in [Tabs -> Seq(Messages)]
         /\ inbox[t] # <<>> => Head(inbox[t]) \in Messages
<1>1. Message(kind) \in Messages
  BY DEF TypeOK, Message, Messages
<1>2. \A u \in Tabs : inbox[u] \in Seq(Messages)
  BY DEF TypeOK
<1>3. \A u \in Tabs : Append(inbox[u], Message(kind)) \in Seq(Messages)
  BY <1>1, <1>2, AppendProperties
<1>4. inbox[t] # <<>> => Tail(inbox[t]) \in Seq(Messages) /\ Head(inbox[t]) \in Messages
  BY <1>2, HeadTailProperties
<1>. QED BY <1>1, <1>2, <1>3, <1>4 DEF Publish, TypeOK

-----------------------------------------------------------------------------
(* Type correctness.                                                       *)

LEMMA NoteActivityType ==
  ASSUME TypeOK, NEW t \in Tabs, NEW sent \in Nat, NoteActivity(t, sent)
  PROVE  /\ lastActivity' \in [Tabs -> Nat]
         /\ lastHeartbeatSent' \in [Tabs -> Nat]
         /\ inbox' \in [Tabs -> Seq(Messages)]
<1>1. Publish(t, "vault-heartbeat") \in [Tabs -> Seq(Messages)]
  BY Queues
<1>. QED BY <1>1 DEF NoteActivity, TypeOK

\* Every reachable state of the coordinators is well typed, for any tabs.
THEOREM TypeCorrect == Spec => []TypeOK
<1>1. Init => TypeOK
  <2>1. <<>> \in Seq(Messages)
    OBVIOUS
  <2>. QED BY <2>1, TimesAssumption DEF Init, TypeOK
<1>2. TypeOK /\ [Next]_vars => TypeOK'
  <2>. SUFFICES ASSUME TypeOK, [Next]_vars PROVE TypeOK'
    OBVIOUS
  <2>1. CASE UNCHANGED vars
    BY <2>1 DEF vars, coordVars, TypeOK
  <2>2. ASSUME NEW t \in Tabs, UserEvent(t) PROVE TypeOK'
    <3>1. lastHeartbeatSent[t] \in Nat
      BY DEF TypeOK
    <3>2. /\ lastActivity' \in [Tabs -> Nat] /\ lastHeartbeatSent' \in [Tabs -> Nat]
          /\ inbox' \in [Tabs -> Seq(Messages)]
      BY <2>2, <3>1, NoteActivityType DEF UserEvent
    <3>. QED BY <2>2, <3>2 DEF UserEvent, TypeOK
  <2>3. ASSUME NEW t \in Tabs, Receive(t) PROVE TypeOK'
    <3>1. inbox' \in [Tabs -> Seq(Messages)]
      BY <2>3, Queues DEF Receive, Heard
    <3>2. /\ screen' \in [Tabs -> {"locked", "unlocked", "leaving"}]
          /\ locked' \in [Tabs -> BOOLEAN] /\ lastActivity' \in [Tabs -> Nat]
      BY <2>3 DEF Receive, Heard, OnLock, TypeOK
    <3>. QED BY <2>3, <3>1, <3>2 DEF Receive, TypeOK
  <2>4. ASSUME NEW t \in Tabs, Tick(t) PROVE TypeOK'
    <3>1. inbox' \in [Tabs -> Seq(Messages)]
      BY <2>4, Queues DEF Tick, TypeOK
    <3>2. /\ screen' \in [Tabs -> {"locked", "unlocked", "leaving"}]
          /\ locked' \in [Tabs -> BOOLEAN]
      BY <2>4 DEF Tick, OnLock, TypeOK
    <3>3. due' \in [Tabs -> Nat]
      BY <2>4, TimesAssumption DEF Tick, TypeOK
    <3>. QED BY <2>4, <3>1, <3>2, <3>3 DEF Tick, TypeOK
  <2>5. ASSUME NEW t \in Tabs, Unlock(t) PROVE TypeOK'
    <3>1. /\ lastActivity' \in [Tabs -> Nat] /\ lastHeartbeatSent' \in [Tabs -> Nat]
          /\ inbox' \in [Tabs -> Seq(Messages)]
      BY <2>5, NoteActivityType DEF Unlock
    <3>2. screen' \in [Tabs -> {"locked", "unlocked", "leaving"}] /\ locked' \in [Tabs -> BOOLEAN]
      BY <2>5 DEF Unlock, TypeOK
    <3>3. due' \in [Tabs -> Nat]
      BY <2>5, TimesAssumption DEF Unlock, TypeOK
    <3>. QED BY <2>5, <3>1, <3>2, <3>3 DEF Unlock, TypeOK
  <2>6. ASSUME NEW t \in Tabs, Rendered(t) \/ LockButton(t) PROVE TypeOK'
    <3>1. <<>> \in Seq(Messages)
      OBVIOUS
    <3>2. Unmount(t)
      BY <2>6 DEF Rendered, LockButton
    <3>3. inbox' \in [Tabs -> Seq(Messages)]
      BY <3>1, <3>2 DEF Unmount, TypeOK
    <3>4. screen' \in [Tabs -> {"locked", "unlocked", "leaving"}]
      BY <3>2 DEF Unmount, TypeOK
    <3>5. locked' \in [Tabs -> BOOLEAN]
      BY <3>2 DEF Unmount, TypeOK
    <3>6. /\ lastActivity' \in [Tabs -> Nat] /\ lastHeartbeatSent' \in [Tabs -> Nat]
          /\ due' \in [Tabs -> Nat]
      BY <3>2 DEF Unmount, TypeOK
    <3>. QED BY <3>2, <3>3, <3>4, <3>5, <3>6 DEF Unmount, TypeOK
  <2>7. CASE Advance
    BY <2>7 DEF Advance, coordVars, TypeOK
  <2>. QED BY <2>1, <2>2, <2>3, <2>4, <2>5, <2>6, <2>7 DEF Next, TabStep
<1>. QED BY <1>1, <1>2, PTL DEF Spec

-----------------------------------------------------------------------------
(* The messages that wait in a queue, whatever their order.                *)

Elements(s) == {s[i] : i \in 1 .. Len(s)}

LEMMA ElementsType ==
  ASSUME TypeOK, NEW t \in Tabs, NEW m \in Elements(inbox[t])
  PROVE  m \in Messages /\ m.sent \in Nat
<1>1. inbox[t] \in Seq(Messages)
  BY DEF TypeOK
<1>2. m \in Messages
  BY <1>1, LenProperties DEF Elements
<1>. QED BY <1>2 DEF Messages

LEMMA AppendElements ==
  ASSUME NEW s \in Seq(Messages), NEW m \in Messages
  PROVE  Elements(Append(s, m)) = Elements(s) \cup {m}
<1>1. /\ Len(Append(s, m)) = Len(s) + 1 /\ Len(s) \in Nat
      /\ \A i \in 1 .. Len(s) : Append(s, m)[i] = s[i]
      /\ Append(s, m)[Len(s) + 1] = m
  BY AppendProperties, LenProperties
<1>. QED BY <1>1 DEF Elements

LEMMA TailElements ==
  ASSUME NEW s \in Seq(Messages), s # <<>>
  PROVE  Elements(Tail(s)) \subseteq Elements(s) /\ Head(s) \in Elements(s)
<1>1. /\ Len(Tail(s)) = Len(s) - 1 /\ Len(s) \in Nat /\ Len(s) > 0
      /\ \A i \in 1 .. Len(Tail(s)) : Tail(s)[i] = s[i + 1]
      /\ Head(s) = s[1]
  BY HeadTailProperties, LenProperties, EmptySeq
<1>. QED BY <1>1 DEF Elements

\* What publishing does to the messages that wait for a tab.
LEMMA PublishElements ==
  ASSUME TypeOK, NEW t \in Tabs, NEW u \in Tabs,
         NEW kind \in {"vault-heartbeat", "vault-locked"}
  PROVE  Elements(Publish(t, kind)[u]) =
           Elements(inbox[u]) \cup IF u # t /\ Mounted(u) THEN {Message(kind)} ELSE {}
<1>1. inbox[u] \in Seq(Messages) /\ Message(kind) \in Messages
  BY Queues DEF TypeOK
<1>2. Publish(t, kind)[u] = IF u # t /\ Mounted(u) THEN Append(inbox[u], Message(kind)) ELSE inbox[u]
  BY DEF Publish
<1>. QED BY <1>1, <1>2, AppendElements

-----------------------------------------------------------------------------
(* An open vault is locked in time.  The next tick comes soon after the    *)
(* idle clock runs out, and the idle clock is never far ahead of the last  *)
(* use: every heartbeat that waits was sent no later than the last use.    *)

TabInTime(t) ==
  /\ Open(t) =>
       /\ ~locked[t]
       /\ due[t] < lastActivity[t] + IdleMs + HeartbeatMs
       /\ lastActivity[t] <= lastUse + Delay
       /\ lastActivity[t] <= now
  /\ Mounted(t) => now <= due[t] + Late
  /\ ~Mounted(t) => inbox[t] = <<>>
  /\ \A m \in Elements(inbox[t]) :
       now <= m.sent + Delay /\ (m.kind = "vault-heartbeat" => m.sent <= lastUse)

InTime == lastUse <= now /\ \A t \in Tabs : TabInTime(t)

\* A tab that no step touches, except that messages arrive and lastUse grows.
LEMMA Untouched ==
  ASSUME TypeOK, NEW u \in Tabs, TabInTime(u), now' = now,
         lastUse' \in Nat, lastUse <= lastUse',
         screen'[u] = screen[u], locked'[u] = locked[u],
         lastActivity'[u] = lastActivity[u], due'[u] = due[u],
         ~Mounted(u) => inbox'[u] = inbox[u],
         \A m \in Elements(inbox'[u]) : m \in Elements(inbox[u]) \/
            (m.sent = now /\ (m.kind = "vault-heartbeat" => lastUse' = now))
  PROVE  TabInTime(u)'
<1>1. /\ now \in Nat /\ lastUse \in Nat /\ lastActivity[u] \in Nat /\ Delay \in Nat
      /\ \A m \in Elements(inbox[u]) : m.sent \in Nat
  BY ElementsType, TimesAssumption DEF TypeOK
<1>2. Open(u)' <=> Open(u)
  BY DEF Open
<1>3. Mounted(u)' <=> Mounted(u)
  BY DEF Mounted
<1>4. ASSUME NEW m \in Elements(inbox'[u])
      PROVE  now' <= m.sent + Delay /\ (m.kind = "vault-heartbeat" => m.sent <= lastUse')
  BY <1>1, <1>4 DEF TabInTime
<1>5. lastActivity[u] <= lastUse + Delay => lastActivity[u] <= lastUse' + Delay
  BY <1>1
<1>. QED BY <1>2, <1>3, <1>4, <1>5 DEF TabInTime, Elements

\* Activity in tab t, noted by a coordinator whose interval is due in time.
LEMMA NoteActivityInTime ==
  ASSUME TypeOK, InTime, NEW t \in Tabs, NEW sent \in Nat, NoteActivity(t, sent),
         now' = now, lastUse' = now,
         \A u \in Tabs : u # t => /\ screen'[u] = screen[u] /\ locked'[u] = locked[u]
                                  /\ due'[u] = due[u],
         Open(t)', ~locked'[t], due'[t] < now + IdleMs + HeartbeatMs, now <= due'[t] + Late
  PROVE  InTime'
<1>0. /\ now \in Nat /\ lastUse \in Nat /\ lastUse <= now /\ Delay \in Nat
      /\ lastActivity \in [Tabs -> Nat] /\ inbox \in [Tabs -> Seq(Messages)]
  BY TimesAssumption DEF TypeOK, InTime
<1>1. lastActivity'[t] = now /\ \A u \in Tabs : u # t => lastActivity'[u] = lastActivity[u]
  BY <1>0 DEF NoteActivity
<1>2. /\ inbox'[t] = inbox[t]
      /\ \A u \in Tabs : ~Mounted(u) => inbox'[u] = inbox[u]
  BY DEF NoteActivity, Publish
<1>3. ASSUME NEW u \in Tabs
      PROVE  \A m \in Elements(inbox'[u]) : m \in Elements(inbox[u]) \/ m.sent = now
  BY PublishElements DEF NoteActivity, Message
<1>4. ASSUME NEW u \in Tabs, u # t PROVE TabInTime(u)'
  BY <1>0, <1>1, <1>2, <1>3, <1>4, Untouched DEF InTime
<1>5. TabInTime(t)'
  <2>1. \A m \in Elements(inbox[t]) : now <= m.sent + Delay /\ (m.kind = "vault-heartbeat" => m.sent <= now)
    <3>1. \A m \in Elements(inbox[t]) : m.sent \in Nat
      BY ElementsType
    <3>. QED BY <1>0, <3>1 DEF InTime, TabInTime
  <2>. QED BY <1>0, <1>1, <1>2, <2>1 DEF TabInTime, Open, Mounted
<1>. QED BY <1>0, <1>4, <1>5 DEF InTime

LEMMA UserEventInTime ==
  ASSUME TypeOK, InTime, NEW t \in Tabs, UserEvent(t)
  PROVE  InTime'
<1>1. /\ lastHeartbeatSent[t] \in Nat /\ lastActivity[t] \in Nat /\ now \in Nat /\ due[t] \in Nat
      /\ lastUse \in Nat /\ IdleMs \in Nat \ {0} /\ HeartbeatMs \in Nat \ {0} /\ Delay \in Nat
  BY TimesAssumption DEF TypeOK
<1>2. /\ NoteActivity(t, lastHeartbeatSent[t]) /\ now' = now /\ lastUse' = now
      /\ screen' = screen /\ locked' = locked /\ due' = due /\ Open(t) /\ ~locked[t]
  BY DEF UserEvent
<1>3. now <= due[t] + Late
  BY <1>2 DEF InTime, TabInTime, Open, Mounted
<1>4. Open(t)'
  BY <1>2 DEF Open
<1>5. due[t] < now + IdleMs + HeartbeatMs
  <2>1. due[t] < lastActivity[t] + IdleMs + HeartbeatMs /\ lastActivity[t] <= now
    BY <1>2 DEF InTime, TabInTime
  <2>. QED BY <1>1, <2>1
<1>. QED BY <1>1, <1>2, <1>3, <1>4, <1>5, NoteActivityInTime

\* Tail of the queue of t, as Receive takes a message.
LEMMA Taken ==
  ASSUME TypeOK, NEW t \in Tabs, inbox[t] # <<>>, inbox' = [inbox EXCEPT ![t] = Tail(@)]
  PROVE  /\ Elements(inbox'[t]) \subseteq Elements(inbox[t])
         /\ Head(inbox[t]) \in Elements(inbox[t])
         /\ \A u \in Tabs : u # t => inbox'[u] = inbox[u]
<1>1. inbox[t] \in Seq(Messages) /\ inbox'[t] = Tail(inbox[t])
  BY DEF TypeOK
<1>. QED BY <1>1, TailElements DEF TypeOK

LEMMA ReceiveInTime ==
  ASSUME TypeOK, InTime, NEW t \in Tabs, Receive(t)
  PROVE  InTime'
<1>0. /\ now \in Nat /\ lastUse \in Nat /\ lastUse <= now /\ Delay \in Nat /\ IdleMs \in Nat \ {0}
      /\ HeartbeatMs \in Nat \ {0} /\ due[t] \in Nat /\ lastActivity[t] \in Nat
  BY TimesAssumption DEF TypeOK, InTime
<1>1. /\ inbox' = [inbox EXCEPT ![t] = Tail(@)] /\ inbox[t] # <<>> /\ Mounted(t)
      /\ UNCHANGED <<now, due, lastUse>>
  BY DEF Receive, Heard
<1>2. /\ Elements(inbox'[t]) \subseteq Elements(inbox[t])
      /\ Head(inbox[t]) \in Elements(inbox[t])
      /\ \A u \in Tabs : u # t => inbox'[u] = inbox[u]
  BY <1>1, Taken
<1>3. ASSUME NEW u \in Tabs, u # t PROVE TabInTime(u)'
  <2>1. screen'[u] = screen[u] /\ locked'[u] = locked[u] /\ lastActivity'[u] = lastActivity[u]
    BY <1>3 DEF Receive, Heard, OnLock, TypeOK
  <2>. QED BY <1>0, <1>1, <1>2, <1>3, <2>1, Untouched DEF InTime
<1>4. /\ now <= due[t] + Late
      /\ \A m \in Elements(inbox'[t]) :
           now <= m.sent + Delay /\ (m.kind = "vault-heartbeat" => m.sent <= lastUse)
      /\ Open(t) => /\ ~locked[t] /\ due[t] < lastActivity[t] + IdleMs + HeartbeatMs
                    /\ lastActivity[t] <= lastUse + Delay /\ lastActivity[t] <= now
  BY <1>1, <1>2 DEF InTime, TabInTime
<1>5. TabInTime(t)'
  <2>1. CASE ~locked[t] /\ Head(inbox[t]).kind = "vault-heartbeat" /\ Heard(t) /\ UNCHANGED <<screen, locked>>
    <3>1. Head(inbox[t]).sent \in Nat
      BY <1>2, ElementsType
    <3>2. now <= Head(inbox[t]).sent + Delay /\ Head(inbox[t]).sent <= lastUse
      BY <1>2, <2>1 DEF InTime, TabInTime
    <3>3. lastActivity'[t] = now /\ now <= lastUse + Delay
      BY <1>0, <2>1, <3>1, <3>2 DEF Heard, TypeOK
    <3>4. Open(t) => due[t] < now + IdleMs + HeartbeatMs
      BY <1>0, <1>4
    <3>. QED BY <1>0, <1>1, <1>4, <2>1, <3>3, <3>4 DEF TabInTime, Open, Mounted
  <2>2. CASE OnLock(t)
    BY <1>1, <1>4, <2>2 DEF OnLock, TabInTime, Open, Mounted, TypeOK
  <2>3. CASE UNCHANGED <<lastActivity, screen, locked>>
    BY <1>1, <1>4, <2>3 DEF TabInTime, Open, Mounted
  <2>. QED BY <2>1, <2>2, <2>3 DEF Receive
<1>. QED BY <1>0, <1>1, <1>3, <1>5 DEF InTime

LEMMA TickInTime ==
  ASSUME TypeOK, InTime, NEW t \in Tabs, Tick(t)
  PROVE  InTime'
<1>0. /\ now \in Nat /\ lastUse \in Nat /\ lastUse <= now /\ Delay \in Nat /\ IdleMs \in Nat \ {0}
      /\ HeartbeatMs \in Nat \ {0} /\ Late \in Nat /\ lastActivity[t] \in Nat
  BY TimesAssumption DEF TypeOK, InTime
<1>1. /\ Mounted(t) /\ UNCHANGED <<now, lastActivity, lastUse>>
      /\ due'[t] = now + HeartbeatMs /\ \A u \in Tabs : u # t => due'[u] = due[u]
      /\ inbox' = Publish(t, "vault-locked") \/ inbox' = inbox
  BY DEF Tick, TypeOK
<1>2. ASSUME NEW u \in Tabs, u # t PROVE TabInTime(u)'
  <2>1. screen'[u] = screen[u] /\ locked'[u] = locked[u]
    BY <1>2 DEF Tick, OnLock, TypeOK
  <2>2. ~Mounted(u) => inbox'[u] = inbox[u]
    BY <1>1 DEF Publish
  <2>3. \A m \in Elements(inbox'[u]) : m \in Elements(inbox[u]) \/
          (m.sent = now /\ m.kind # "vault-heartbeat")
    BY <1>1, PublishElements DEF Message
  <2>. QED BY <1>0, <1>1, <1>2, <2>1, <2>2, <2>3, Untouched DEF InTime
<1>3. TabInTime(t)'
  <2>1. inbox'[t] = inbox[t]
    BY <1>1 DEF Publish
  <2>2. now <= due'[t] + Late
    BY <1>0, <1>1
  <2>3. CASE OnLock(t)
    BY <1>1, <2>1, <2>2, <2>3 DEF OnLock, InTime, TabInTime, Open, Mounted, TypeOK
  <2>4. CASE (locked[t] \/ ~Idle(t)) /\ UNCHANGED <<screen, locked, inbox>>
    <3>1. Open(t) => due'[t] < lastActivity[t] + IdleMs + HeartbeatMs
      BY <1>0, <1>1, <2>4 DEF Idle, InTime, TabInTime
    <3>. QED BY <1>1, <2>1, <2>2, <2>4, <3>1 DEF InTime, TabInTime, Open, Mounted
  <2>. QED BY <2>3, <2>4 DEF Tick
<1>. QED BY <1>0, <1>1, <1>2, <1>3 DEF InTime

LEMMA UnlockInTime ==
  ASSUME TypeOK, InTime, NEW t \in Tabs, Unlock(t)
  PROVE  InTime'
<1>0. /\ now \in Nat /\ IdleMs \in Nat \ {0} /\ HeartbeatMs \in Nat \ {0} /\ Late \in Nat
      /\ due \in [Tabs -> Nat] /\ locked \in [Tabs -> BOOLEAN]
      /\ screen \in [Tabs -> {"locked", "unlocked", "leaving"}]
  BY TimesAssumption DEF TypeOK
<1>1. /\ NoteActivity(t, 0) /\ now' = now /\ lastUse' = now
      /\ due' = [due EXCEPT ![t] = now + HeartbeatMs]
      /\ screen' = [screen EXCEPT ![t] = "unlocked"]
      /\ locked' = [locked EXCEPT ![t] = FALSE]
  BY DEF Unlock
<1>2. \A u \in Tabs : u # t =>
        screen'[u] = screen[u] /\ locked'[u] = locked[u] /\ due'[u] = due[u]
  BY <1>0, <1>1
<1>3. Open(t)' /\ ~locked'[t]
  BY <1>0, <1>1 DEF Open
<1>4. due'[t] < now + IdleMs + HeartbeatMs /\ now <= due'[t] + Late
  BY <1>0, <1>1
<1>. QED BY <1>1, <1>2, <1>3, <1>4, NoteActivityInTime

LEMMA UnmountInTime ==
  ASSUME TypeOK, InTime, NEW t \in Tabs, Unmount(t)
  PROVE  InTime'
<1>0. now \in Nat /\ lastUse \in Nat /\ lastUse <= now /\ UNCHANGED <<now, lastUse>>
  BY DEF TypeOK, InTime, Unmount
<1>1. ASSUME NEW u \in Tabs, u # t PROVE TabInTime(u)'
  <2>1. /\ screen'[u] = screen[u] /\ locked'[u] = locked[u] /\ inbox'[u] = inbox[u]
        /\ lastActivity'[u] = lastActivity[u] /\ due'[u] = due[u]
    BY <1>1 DEF Unmount, TypeOK
  <2>. QED BY <1>0, <2>1, Untouched DEF InTime
<1>2. screen'[t] = "locked" /\ inbox'[t] = <<>>
  BY DEF Unmount, TypeOK
<1>3. Elements(inbox'[t]) = {}
  BY <1>2, EmptySeq DEF Elements
<1>4. TabInTime(t)'
  BY <1>2, <1>3 DEF TabInTime, Open, Mounted
<1>. QED BY <1>0, <1>1, <1>4 DEF InTime

LEMMA AdvanceInTime ==
  ASSUME TypeOK, InTime, Advance
  PROVE  InTime'
<1>0. /\ now \in Nat /\ lastUse \in Nat /\ lastUse <= now /\ now' = now + 1 /\ Delay \in Nat /\ Late \in Nat
      /\ UNCHANGED <<screen, lastActivity, locked, due, inbox, lastUse>>
  BY TimesAssumption DEF TypeOK, InTime, Advance, coordVars
<1>1. ASSUME NEW t \in Tabs PROVE TabInTime(t)'
  <2>1. due[t] \in Nat /\ lastActivity[t] \in Nat
    BY DEF TypeOK
  <2>2. CASE Mounted(t)
    <3>1. now < due[t] + Late /\ \A m \in Elements(inbox[t]) : now < m.sent + Delay
      BY <2>2 DEF Advance, Elements
    <3>2. \A m \in Elements(inbox[t]) : m.sent \in Nat
      BY ElementsType
    <3>. QED BY <1>0, <2>1, <2>2, <3>1, <3>2 DEF InTime, TabInTime, Open, Mounted
  <2>3. CASE ~Mounted(t)
    <3>1. inbox[t] = <<>> /\ ~Open(t)
      BY <2>3 DEF InTime, TabInTime, Open, Mounted
    <3>2. Elements(inbox[t]) = {}
      BY <3>1, EmptySeq DEF Elements
    <3>. QED BY <1>0, <2>3, <3>1, <3>2 DEF TabInTime, Open, Mounted
  <2>. QED BY <2>2, <2>3
<1>. QED BY <1>0, <1>1 DEF InTime

LEMMA AlwaysInTime == Spec => []InTime
<1>1. Init => InTime
  <2>. SUFFICES ASSUME Init PROVE InTime
    OBVIOUS
  <2>0. Elements(<<>>) = {}
    BY EmptySeq DEF Elements
  <2>1. \A t \in Tabs : Elements(inbox[t]) = {}
    BY <2>0 DEF Init
  <2>2. lastUse <= now
    BY TimesAssumption DEF Init
  <2>. QED BY <2>1, <2>2 DEF Init, InTime, TabInTime, Open, Mounted
<1>2. TypeOK /\ InTime /\ [Next]_vars => InTime'
  <2>1. ASSUME InTime, UNCHANGED vars PROVE InTime'
    BY <2>1 DEF vars, coordVars, InTime, TabInTime, Open, Mounted
  <2>. QED BY <2>1, UserEventInTime, ReceiveInTime, TickInTime, UnlockInTime, UnmountInTime,
              AdvanceInTime
           DEF Next, TabStep, Rendered, LockButton
<1>. QED BY <1>1, <1>2, TypeCorrect, PTL DEF Spec

\* An open vault is locked within the idle time, one tick and the browser's
\* delays of the last use of any tab: heartbeats cannot keep idle tabs awake.
THEOREM VaultLockedInTime == Spec => []LockedInTime
<1>1. TypeOK /\ InTime => LockedInTime
  <2>. SUFFICES ASSUME TypeOK, InTime, NEW t \in Tabs, Open(t)
                PROVE  now < lastUse + Delay + IdleMs + HeartbeatMs + Late
    BY DEF LockedInTime
  <2>1. /\ due[t] < lastActivity[t] + IdleMs + HeartbeatMs /\ lastActivity[t] <= lastUse + Delay
        /\ now <= due[t] + Late
    BY DEF InTime, TabInTime, Open, Mounted
  <2>2. /\ now \in Nat /\ lastUse \in Nat /\ due[t] \in Nat /\ lastActivity[t] \in Nat
        /\ Delay \in Nat /\ IdleMs \in Nat /\ HeartbeatMs \in Nat /\ Late \in Nat
    BY TimesAssumption DEF TypeOK
  <2>. QED BY <2>1, <2>2
<1>. QED BY <1>1, TypeCorrect, AlwaysInTime, PTL

-----------------------------------------------------------------------------
(* Every idle clock follows the use of any tab: it is not behind a         *)
(* heartbeat that was sent, unless one waits.                              *)

Told(t) ==
  Open(t) =>
    \/ HeartbeatQueued(t)
    \/ \A u \in Tabs : Open(u) => lastHeartbeatSent[u] <= lastActivity[t]

AwareInv ==
  /\ AwareOfUse
  /\ HeartbeatMs <= now
  /\ \A t \in Tabs : Told(t) /\ lastHeartbeatSent[t] <= now

LEMMA QueuedIs ==
  \A t : HeartbeatQueued(t) <=> \E m \in Elements(inbox[t]) : m.kind = "vault-heartbeat"
BY DEF HeartbeatQueued, Elements

\* A step that moves no idle clock and no heartbeat time, takes no message
\* from an open tab and opens none.
LEMMA QuietAware ==
  ASSUME TypeOK, AwareInv, lastUse' = lastUse, now' \in Nat, now <= now',
         \A t \in Tabs : Open(t)' =>
           /\ Open(t) /\ lastActivity'[t] = lastActivity[t]
           /\ Elements(inbox[t]) \subseteq Elements(inbox'[t]),
         \A t \in Tabs : lastHeartbeatSent'[t] = lastHeartbeatSent[t] \/ lastHeartbeatSent'[t] = 0
  PROVE  AwareInv'
<1>0. /\ now \in Nat /\ lastHeartbeatSent \in [Tabs -> Nat] /\ lastActivity \in [Tabs -> Nat]
      /\ HeartbeatMs \in Nat
  BY TimesAssumption DEF TypeOK
<1>1. ASSUME NEW t \in Tabs, Open(t)', ~HeartbeatQueued(t)'
      PROVE  ~HeartbeatQueued(t)
  <2>1. HeartbeatQueued(t)' <=> \E m \in Elements(inbox'[t]) : m.kind = "vault-heartbeat"
    BY DEF HeartbeatQueued, Elements
  <2>. QED BY <1>1, <2>1, QueuedIs
<1>2. AwareOfUse'
  BY <1>1 DEF AwareInv, AwareOfUse
<1>3. ASSUME NEW t \in Tabs PROVE Told(t)'
  <2>. SUFFICES ASSUME Open(t)', ~HeartbeatQueued(t)', NEW u \in Tabs, Open(u)'
                PROVE  lastHeartbeatSent'[u] <= lastActivity'[t]
    BY DEF Told
  <2>1. lastHeartbeatSent[u] <= lastActivity[t]
    BY <1>1 DEF AwareInv, Told
  <2>. QED BY <1>0, <2>1
<1>4. \A t \in Tabs : lastHeartbeatSent'[t] <= now'
  BY <1>0 DEF AwareInv
<1>5. HeartbeatMs <= now'
  BY <1>0 DEF AwareInv
<1>. QED BY <1>2, <1>3, <1>4, <1>5 DEF AwareInv

\* A tab whose idle clock is set to now is aware of everything so far.
LEMMA ClockSet ==
  ASSUME TypeOK, InTime, AwareInv, NEW t \in Tabs, now' = now,
         lastActivity'[t] = now, lastUse' \in Nat, lastUse' <= now,
         \A u \in Tabs : lastHeartbeatSent'[u] \in Nat /\ lastHeartbeatSent'[u] <= now
  PROVE  Told(t)' /\ lastUse' < lastActivity'[t] + HeartbeatMs
BY TimesAssumption DEF Told, TypeOK

LEMMA NoteActivityAware ==
  ASSUME TypeOK, InTime, AwareInv, NEW t \in Tabs, NEW sent \in Nat, NoteActivity(t, sent),
         sent = 0 \/ (Open(t) /\ sent = lastHeartbeatSent[t]),
         now' = now, lastUse' = now,
         \A u \in Tabs : u # t => screen'[u] = screen[u]
  PROVE  AwareInv'
<1>0. /\ now \in Nat /\ HeartbeatMs \in Nat \ {0} /\ HeartbeatMs <= now
      /\ lastHeartbeatSent \in [Tabs -> Nat] /\ lastActivity \in [Tabs -> Nat]
      /\ \A u \in Tabs : lastHeartbeatSent[u] <= now
  BY TimesAssumption DEF TypeOK, AwareInv
<1>1. /\ lastActivity'[t] = now /\ \A u \in Tabs : u # t => lastActivity'[u] = lastActivity[u]
      /\ \A u \in Tabs : u # t => lastHeartbeatSent'[u] = lastHeartbeatSent[u]
      /\ lastHeartbeatSent'[t] \in Nat /\ lastHeartbeatSent'[t] <= now
  BY <1>0 DEF NoteActivity
<1>2. Told(t)' /\ lastUse' < lastActivity'[t] + HeartbeatMs
  BY <1>0, <1>1, ClockSet
<1>3. ASSUME NEW u \in Tabs, u # t, Open(u)', ~HeartbeatQueued(u)'
      PROVE  /\ lastUse' < lastActivity'[u] + HeartbeatMs
             /\ \A v \in Tabs : Open(v)' => lastHeartbeatSent'[v] <= lastActivity'[u]
  <2>0. Open(u) /\ Mounted(u) /\ (\A v \in Tabs : v # t => (Open(v)' <=> Open(v)))
    BY <1>3 DEF Open, Mounted
  <2>1. HeartbeatQueued(u)' <=> \E m \in Elements(inbox'[u]) : m.kind = "vault-heartbeat"
    BY DEF HeartbeatQueued, Elements
  <2>2. inbox' # Publish(t, "vault-heartbeat")
    <3>. SUFFICES ASSUME inbox' = Publish(t, "vault-heartbeat") PROVE FALSE
      OBVIOUS
    <3>1. Message("vault-heartbeat") \in Elements(inbox'[u])
      BY <1>3, <2>0, PublishElements
    <3>. QED BY <1>3, <2>1, <3>1 DEF Message
  <2>3. /\ now < sent + HeartbeatMs /\ inbox' = inbox
        /\ lastHeartbeatSent' = [lastHeartbeatSent EXCEPT ![t] = sent]
    BY <2>2 DEF NoteActivity
  <2>4. Open(t) /\ sent = lastHeartbeatSent[t]
    BY <1>0, <2>3
  <2>5. ~HeartbeatQueued(u)
    BY <1>3, <2>3 DEF HeartbeatQueued
  <2>6. \A v \in Tabs : Open(v) => lastHeartbeatSent[v] <= lastActivity[u]
    BY <2>0, <2>5 DEF AwareInv, Told
  <2>7. lastHeartbeatSent[t] <= lastActivity[u]
    BY <2>4, <2>6
  <2>8. lastHeartbeatSent' = lastHeartbeatSent /\ lastActivity'[u] = lastActivity[u]
    BY <1>0, <1>1, <1>3, <2>3, <2>4
  <2>9. lastUse' < lastActivity'[u] + HeartbeatMs
    BY <1>0, <2>3, <2>4, <2>7, <2>8
  <2>. QED BY <2>0, <2>4, <2>6, <2>8, <2>9
<1>4. AwareOfUse'
  BY <1>2, <1>3 DEF AwareOfUse
<1>5. \A u \in Tabs : Told(u)'
  BY <1>2, <1>3 DEF Told
<1>6. \A u \in Tabs : lastHeartbeatSent'[u] <= now'
  BY <1>0, <1>1
<1>. QED BY <1>0, <1>4, <1>5, <1>6 DEF AwareInv

LEMMA ReceiveAware ==
  ASSUME TypeOK, InTime, AwareInv, NEW t \in Tabs, Receive(t)
  PROVE  AwareInv'
<1>0. /\ now \in Nat /\ lastUse \in Nat /\ lastUse <= now /\ lastActivity \in [Tabs -> Nat]
      /\ \A u \in Tabs : lastHeartbeatSent[u] \in Nat /\ lastHeartbeatSent[u] <= now
  BY DEF TypeOK, InTime, AwareInv
<1>1. /\ inbox' = [inbox EXCEPT ![t] = Tail(@)] /\ inbox[t] # <<>>
      /\ UNCHANGED <<now, lastHeartbeatSent, lastUse>>
  BY DEF Receive, Heard
<1>2. \A u \in Tabs : u # t =>
        /\ inbox'[u] = inbox[u] /\ lastActivity'[u] = lastActivity[u]
        /\ screen'[u] = screen[u]
  BY <1>1, Taken DEF Receive, Heard, OnLock, TypeOK
<1>3. CASE Heard(t) /\ UNCHANGED screen
  <2>1. lastActivity'[t] = now
    BY <1>0, <1>3 DEF Heard
  <2>2. Told(t)' /\ lastUse' < lastActivity'[t] + HeartbeatMs
    BY <1>0, <1>1, <2>1, ClockSet
  <2>3. ASSUME NEW u \in Tabs, u # t
        PROVE  Told(u)' /\ (HeartbeatQueued(u)' <=> HeartbeatQueued(u)) /\ (Open(u)' <=> Open(u))
    BY <1>1, <1>2, <1>3, <2>3 DEF AwareInv, Told, HeartbeatQueued, Open
  <2>4. AwareOfUse'
    BY <1>1, <1>2, <2>2, <2>3 DEF AwareInv, AwareOfUse
  <2>. QED BY <1>1, <2>2, <2>3, <2>4 DEF AwareInv
<1>4. CASE ~Open(t)'
  <2>1. \A u \in Tabs : Open(u)' =>
          /\ Open(u) /\ lastActivity'[u] = lastActivity[u]
          /\ Elements(inbox[u]) \subseteq Elements(inbox'[u])
    BY <1>2, <1>4 DEF Open
  <2>2. now' \in Nat /\ now <= now' /\ lastUse' = lastUse /\ lastHeartbeatSent' = lastHeartbeatSent
    BY <1>0, <1>1
  <2>. QED BY <2>1, <2>2, QuietAware
<1>5. CASE OnLock(t)
  BY <1>4, <1>5 DEF OnLock, Open, TypeOK
<1>6. CASE locked[t] /\ UNCHANGED screen
  <2>1. ~Open(t)
    BY <1>6 DEF InTime, TabInTime
  <2>. QED BY <1>4, <1>6, <2>1 DEF Open
<1>. QED BY <1>3, <1>5, <1>6 DEF Receive

LEMMA TickAware ==
  ASSUME TypeOK, InTime, AwareInv, NEW t \in Tabs, Tick(t)
  PROVE  AwareInv'
<1>1. /\ UNCHANGED <<now, lastActivity, lastHeartbeatSent, lastUse>>
      /\ inbox' = Publish(t, "vault-locked") \/ inbox' = inbox
  BY DEF Tick
<1>2. \A u \in Tabs : Elements(inbox[u]) \subseteq Elements(inbox'[u])
  BY <1>1, PublishElements
<1>3. \A u \in Tabs : Open(u)' => Open(u)
  BY DEF Tick, OnLock, Open, TypeOK
<1>4. now' \in Nat /\ now <= now'
  BY <1>1 DEF TypeOK
<1>. QED BY <1>1, <1>2, <1>3, <1>4, QuietAware

LEMMA UnmountAware ==
  ASSUME TypeOK, AwareInv, NEW t \in Tabs, Unmount(t)
  PROVE  AwareInv'
<1>1. UNCHANGED <<now, lastUse>>
  BY DEF Unmount
<1>2. \A u \in Tabs : Open(u)' =>
        /\ Open(u) /\ lastActivity'[u] = lastActivity[u] /\ inbox'[u] = inbox[u]
  BY DEF Unmount, Open, TypeOK
<1>3. \A u \in Tabs : lastHeartbeatSent'[u] = lastHeartbeatSent[u] \/ lastHeartbeatSent'[u] = 0
  BY DEF Unmount, TypeOK
<1>4. now' \in Nat /\ now <= now'
  BY <1>1 DEF TypeOK
<1>. QED BY <1>1, <1>2, <1>3, <1>4, QuietAware

LEMMA AdvanceAware ==
  ASSUME TypeOK, AwareInv, Advance
  PROVE  AwareInv'
<1>1. /\ UNCHANGED <<screen, lastActivity, lastHeartbeatSent, inbox, lastUse>>
      /\ now' \in Nat /\ now <= now'
  BY DEF Advance, coordVars, TypeOK
<1>2. \A u \in Tabs : Open(u)' => Open(u)
  BY <1>1 DEF Open
<1>. QED BY <1>1, <1>2, QuietAware

\* Every idle clock lags behind the last user event of any tab by less than
\* one heartbeat interval, unless a heartbeat is on its way to it.
THEOREM ClocksFollowUse == Spec => []AwareOfUse
<1>1. Init => AwareInv
  BY TimesAssumption DEF Init, AwareInv, AwareOfUse, Told, Open
<1>2. TypeOK /\ InTime /\ AwareInv /\ [Next]_vars => AwareInv'
  <2>. SUFFICES ASSUME TypeOK, InTime, AwareInv, [Next]_vars PROVE AwareInv'
    OBVIOUS
  <2>1. CASE UNCHANGED vars
    BY <2>1 DEF vars, coordVars, AwareInv, AwareOfUse, Told, Open, HeartbeatQueued
  <2>2. ASSUME NEW t \in Tabs, UserEvent(t) PROVE AwareInv'
    <3>1. lastHeartbeatSent[t] \in Nat
      BY DEF TypeOK
    <3>. QED BY <2>2, <3>1, NoteActivityAware DEF UserEvent
  <2>3. ASSUME NEW t \in Tabs, Unlock(t) PROVE AwareInv'
    <3>1. \A u \in Tabs : u # t => screen'[u] = screen[u]
      BY <2>3 DEF Unlock, TypeOK
    <3>. QED BY <2>3, <3>1, NoteActivityAware DEF Unlock
  <2>. QED BY <2>1, <2>2, <2>3, ReceiveAware, TickAware, UnmountAware, AdvanceAware
           DEF Next, TabStep, Rendered, LockButton
<1>3. AwareInv => AwareOfUse
  BY DEF AwareInv
<1>. QED BY <1>1, <1>2, <1>3, TypeCorrect, AlwaysInTime, PTL DEF Spec
=============================================================================

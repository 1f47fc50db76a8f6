------------------------- MODULE CoverManagerProofs -------------------------
(***************************************************************************)
(* Theorems about CoverManager, for every number of users, covers and      *)
(* messages, and about Observers, which are the other side of the covers   *)
(* that a manager owns, for every number of observers and every geometry.  *)
(*                                                                         *)
(* The inductive invariant says where the end of the reader's queue is,    *)
(* what the manager is like while it is being opened, and that a removal   *)
(* leaves no task running at the covers that it has dealt with.  That of    *)
(* Observers says who is being told, and what those know that have been.   *)
(***************************************************************************)
EXTENDS CoverManager, Observers, FiniteSetTheorems, TLAPS

\* A live reader has not had its end, one that is stopped has it last, and one that
\* is forgotten has left no queue.
QueueInv ==
    /\ reader = "none" => queue = <<>>
    /\ reader = "live" => \A i \in 1..Len(queue) : queue[i] # Sentinel
    /\ reader = "stopped" =>
          /\ queue # <<>>
          /\ \A i \in 1..Len(queue) : queue[i] = Sentinel <=> i = Len(queue)

\* One user at most opens the manager, and nothing is open then.
OpenInv ==
    \A u \in Users : pc[u] = "opening" =>
        /\ ~conn /\ reader = "none"
        /\ \A v \in Users : pc[v] = "opening" => v = u

\* Of the covers that a removal has dealt with, only those that moved meanwhile have
\* a task.
VisitedInv ==
    \A u \in Users :
        /\ visited[u] \subseteq dict[u]
        /\ pc[u] \in Removing =>
              \A a \in visited[u] \ {target[u]} : notifier[a] = "live" => a \in missed

IInv == ManagerInv /\ QueueInv /\ OpenInv /\ RemovedOrMissed /\ VisitedInv
-----------------------------------------------------------------------------
LEMMA Initially == Init => IInv
  <1> SUFFICES ASSUME Init PROVE IInv
    OBVIOUS
  <1>1. TypeOK
    <2>1. queue \in Seq(Addrs \cup {Stranger, Sentinel})
      BY DEF Init
    <2>2. /\ notifier \in [Addrs -> {"none", "live", "failed"}]
          /\ target \in [Users -> Addrs \cup {Stranger}]
          /\ stale \in [Users -> BOOLEAN]
          /\ pc \in [Users -> {"ready", "opening", "sending", "reconnecting", "orphaned"}
                                  \cup Removing]
      BY DEF Init
    <2>3. dict \in [Users -> SUBSET Addrs] /\ visited \in [Users -> SUBSET Addrs]
      BY DEF Init
    <2> QED BY <2>1, <2>2, <2>3 DEF Init, TypeOK
  <1>2. AllCaptured /\ CoversNeedConnection /\ QueueInv /\ RemovedOrMissed
    BY DEF Init, AllCaptured, CoversNeedConnection, QueueInv, RemovedOrMissed
  <1>3. OpenInv /\ VisitedInv
    BY DEF Init, OpenInv, VisitedInv, Removing
  <1> QED BY <1>1, <1>2, <1>3 DEF IInv, ManagerInv

\* What the end of the session does to the queue.
LEMMA SessionEnds ==
    ASSUME ManagerInv, QueueInv, EndSession
    PROVE  /\ ~conn' /\ link' = FALSE
           /\ reader' \in {"none", "stopped"}
           /\ queue' \in Seq(Addrs \cup {Stranger, Sentinel})
           /\ QueueInv'
  <1> USE DEF ManagerInv, TypeOK, QueueInv, EndSession
  <1>1. CASE reader = "live"
    <2>1. queue' = Append(queue, Sentinel) /\ reader' = "stopped"
      BY <1>1
    <2>2. /\ Len(queue') = Len(queue) + 1 /\ queue' # <<>>
          /\ \A i \in 1..Len(queue) : queue'[i] = queue[i]
          /\ queue'[Len(queue) + 1] = Sentinel
      BY <2>1, SMTT(40)
    <2>3. \A i \in 1..Len(queue') : queue'[i] = Sentinel <=> i = Len(queue')
      BY <1>1, <2>2
    <2> QED BY <2>1, <2>2, <2>3
  <1>2. CASE reader # "live"
    BY <1>2
  <1> QED BY <1>1, <1>2

\* An exception ends a removal, the notifiers being tasks then.
LEMMA RaisesStep ==
    ASSUME IInv, NEW u \in Users,
           NEW tasks \in [Addrs -> {"none", "live", "failed"}], notifier' = tasks,
           \A a \in Addrs : tasks[a] = "live" => notifier[a] = "live",
           RemovalRaises(u), UNCHANGED <<tracker, subject, received, handled>>
    PROVE  IInv'
  <1> USE DEF IInv, ManagerInv, RemovalRaises
  <1>1. TypeOK'
    BY DEF TypeOK
  <1>2. AllCaptured' /\ CoversNeedConnection' /\ QueueInv'
    BY DEF AllCaptured, CoversNeedConnection, QueueInv
  <1>3. RemovedOrMissed'
    BY DEF RemovedOrMissed
  <1>4. OpenInv'
    BY DEF OpenInv, TypeOK
  <1>5. VisitedInv'
    <2>1. visited'[u] = {} /\ dict'[u] = {}
      BY DEF TypeOK
    <2>2. ASSUME NEW v \in Users, v # u
          PROVE  /\ visited'[v] = visited[v] /\ dict'[v] = dict[v]
                 /\ target'[v] = target[v] /\ pc'[v] = pc[v]
      BY <2>2 DEF TypeOK
    <2>3. ASSUME NEW v \in Users, v # u, pc[v] \in Removing,
                 NEW b \in visited[v] \ {target[v]}, tasks[b] = "live"
          PROVE  b \in missed
      <3>1. b \in Addrs
        BY DEF TypeOK
      <3> QED BY <2>3, <3>1 DEF VisitedInv
    <2> QED BY <2>1, <2>2, <2>3 DEF VisitedInv
  <1> QED BY <1>1, <1>2, <1>3, <1>4, <1>5

\* One turn of remove_covers(), tasks being the notifiers' and seen the covers that
\* have been dealt with.
LEMMA ProceedStep ==
    ASSUME IInv, NEW u \in Users, pc[u] \in {"ready"} \cup Removing,
           NEW then \in Removing, NEW d \in SUBSET Addrs, NEW seen \in SUBSET d,
           NEW tasks \in [Addrs -> {"none", "live", "failed"}], notifier' = tasks,
           \A a \in Addrs : tasks[a] = "live" => notifier[a] = "live",
           \A a \in seen : tasks[a] = "live" => a \in missed,
           Proceed(u, then, d, seen, tasks),
           UNCHANGED <<tracker, subject, received, handled>>
    PROVE  IInv'
  <1> USE DEF IInv, ManagerInv
  <1>1. ASSUME NEW a \in d \ seen, NEW skipped \in SUBSET {b \in d \ seen : Free(b, tasks)},
               visited' = [visited EXCEPT ![u] = seen \cup skipped \cup {a}],
               target' = [target EXCEPT ![u] = a],
               dict' = [dict EXCEPT ![u] = d],
               pc' = [pc EXCEPT ![u] = then],
               UNCHANGED <<conn, link, reader, queue, covers, stale, missed>>
        PROVE  IInv'
    <2>1. TypeOK'
      BY <1>1 DEF TypeOK, Removing
    <2>2. AllCaptured' /\ CoversNeedConnection' /\ QueueInv' /\ RemovedOrMissed'
      BY <1>1 DEF AllCaptured, CoversNeedConnection, QueueInv, RemovedOrMissed
    <2>3. OpenInv'
      BY <1>1 DEF OpenInv, TypeOK, Removing
    <2>4. \A b \in skipped : tasks[b] # "live"
      BY <1>1 DEF Free
    <2>5. VisitedInv'
      <3>1. visited'[u] \subseteq dict'[u]
        BY <1>1 DEF TypeOK
      <3>2. \A b \in visited'[u] \ {target'[u]} : notifier'[b] = "live" => b \in missed'
        BY <1>1, <2>4 DEF TypeOK
      <3>3. ASSUME NEW v \in Users, v # u
            PROVE  /\ visited'[v] = visited[v] /\ dict'[v] = dict[v]
                   /\ target'[v] = target[v] /\ pc'[v] = pc[v]
        BY <1>1, <3>3 DEF TypeOK
      <3>4. ASSUME NEW v \in Users, v # u, pc[v] \in Removing,
                   NEW b \in visited[v] \ {target[v]}, tasks[b] = "live"
            PROVE  b \in missed'
        <4>1. b \in Addrs
          BY DEF TypeOK
        <4> QED BY <1>1, <3>4, <4>1 DEF VisitedInv
      <3> QED BY <3>1, <3>2, <3>3, <3>4 DEF VisitedInv
    <2> QED BY <2>1, <2>2, <2>3, <2>5
  <1>2. ASSUME \A a \in d \ seen : Free(a, tasks),
               covers' = {},
               missed' = missed \cup (covers \ d),
               visited' = [visited EXCEPT ![u] = {}],
               target' = [target EXCEPT ![u] = Stranger],
               dict' = [dict EXCEPT ![u] = {}],
               stale' = [v \in Users |-> v # u /\ pc[v] \in Removing],
               IF then = "closing" /\ conn
               THEN EndSession /\ pc' = [Orphaned EXCEPT ![u] = "ready"]
               ELSE pc' = [pc EXCEPT ![u] = "ready"] /\ UNCHANGED <<conn, link, reader, queue>>
        PROVE  IInv'
    <2>1. /\ pc' \in [Users -> {"ready", "opening", "sending", "reconnecting", "orphaned"}
                                   \cup Removing]
          /\ pc'[u] = "ready"
          /\ \A v \in Users : /\ pc'[v] = "opening" => pc[v] = "opening"
                              /\ pc'[v] \in Removing => pc[v] \in Removing
      BY <1>2 DEF TypeOK, Orphaned, Removing
    <2>2. /\ conn' \in BOOLEAN /\ link' \in BOOLEAN
          /\ reader' \in {"none", "live", "stopped"}
          /\ queue' \in Seq(Addrs \cup {Stranger, Sentinel})
          /\ QueueInv'
          /\ ~conn' \/ UNCHANGED <<conn, link, reader, queue>>
          /\ reader = "none" => reader' = "none"
          /\ ~conn => ~conn'
      <3>1. CASE EndSession
        <4>1. reader = "none" => reader' = "none"
          BY <3>1 DEF EndSession
        <4>2. ManagerInv /\ QueueInv
          OBVIOUS
        <4>3. /\ ~conn' /\ link' = FALSE
              /\ reader' \in {"none", "stopped"}
              /\ queue' \in Seq(Addrs \cup {Stranger, Sentinel})
              /\ QueueInv'
          BY <3>1, <4>2, SessionEnds
        <4>4. conn' \in BOOLEAN /\ (~conn => ~conn')
          BY <3>1 DEF EndSession
        <4> QED BY <4>1, <4>3, <4>4
      <3>2. CASE UNCHANGED <<conn, link, reader, queue>>
        BY <3>2 DEF TypeOK, QueueInv
      <3> QED BY <1>2, <3>1, <3>2
    <2>3. TypeOK'
      BY <1>2, <2>1, <2>2 DEF TypeOK
    <2>4. AllCaptured' /\ CoversNeedConnection'
      BY <1>2, <2>2 DEF AllCaptured, CoversNeedConnection
    <2>5. OpenInv'
      BY <2>1, <2>2 DEF OpenInv
    <2>6. RemovedOrMissed'
      <3>1. ASSUME NEW a \in Addrs, tasks[a] = "live", a \notin missed, a \in d
            PROVE  FALSE
        BY <1>2, <3>1 DEF Free
      <3>2. ASSUME NEW a \in Addrs, tasks[a] = "live", a \notin d
            PROVE  a \in missed'
        BY <1>2, <3>2 DEF RemovedOrMissed
      <3> QED BY <1>2, <3>1, <3>2 DEF RemovedOrMissed
    <2>7. VisitedInv'
      <3>1. visited'[u] \subseteq dict'[u] /\ pc'[u] \notin Removing
        BY <1>2, <2>1 DEF TypeOK, Removing
      <3>2. ASSUME NEW v \in Users, v # u
            PROVE  /\ visited'[v] = visited[v] /\ dict'[v] = dict[v]
                   /\ target'[v] = target[v]
        BY <1>2, <3>2 DEF TypeOK
      <3>3. ASSUME NEW v \in Users, v # u, pc[v] \in Removing,
                   NEW b \in visited[v] \ {target[v]}, tasks[b] = "live"
            PROVE  b \in missed'
        <4>1. b \in Addrs
          BY DEF TypeOK
        <4> QED BY <1>2, <3>3, <4>1 DEF VisitedInv
      <3> QED BY <2>1, <3>1, <3>2, <3>3 DEF VisitedInv
    <2> QED BY <2>3, <2>4, <2>2, <2>5, <2>6, <2>7
  <1>3. CASE RemovalRaises(u)
    BY <1>3, RaisesStep
  <1> QED BY <1>1, <1>2, <1>3 DEF Proceed

-----------------------------------------------------------------------------
(* One step *)

\* Opening, reconnecting, and adding covers.
LEMMA SessionStep ==
    ASSUME IInv, NEW u \in Users,
           \/ Open(u) \/ Opened(u) \/ OpenFails(u) \/ Sent(u)
           \/ Reconnect(u) \/ Reconnected(u)
           \/ \E a \in Addrs : AddCover(u, a)
    PROVE  IInv'
  <1> USE DEF IInv, ManagerInv, sessionVars, trackVars, removeVars, coverVars
  <1>1. CASE Open(u)
    <2>1. TypeOK'
      BY <1>1 DEF Open, TypeOK
    <2>2. AllCaptured' /\ CoversNeedConnection' /\ QueueInv' /\ RemovedOrMissed'
      BY <1>1 DEF Open, AllCaptured, CoversNeedConnection, QueueInv, RemovedOrMissed
    <2>3. OpenInv' /\ VisitedInv'
      BY <1>1 DEF Open, OpenInv, VisitedInv, TypeOK, Removing
    <2> QED BY <2>1, <2>2, <2>3
  <1>2. CASE Opened(u)
    <2>1. reader = "none" /\ queue = <<>> /\ \A v \in Users : pc'[v] # "opening"
      BY <1>2 DEF Opened, OpenInv, QueueInv, TypeOK
    <2>2. TypeOK'
      BY <1>2 DEF Opened, TypeOK
    <2>3. AllCaptured' /\ CoversNeedConnection' /\ QueueInv' /\ RemovedOrMissed'
      BY <1>2, <2>1 DEF Opened, AllCaptured, CoversNeedConnection, QueueInv, RemovedOrMissed
    <2>4. OpenInv' /\ VisitedInv'
      BY <1>2, <2>1 DEF Opened, OpenInv, VisitedInv, TypeOK, Removing
    <2> QED BY <2>2, <2>3, <2>4
  <1>3. CASE OpenFails(u) \/ Sent(u) \/ Reconnect(u) \/ Reconnected(u)
    <2> USE DEF OpenFails, Sent, Reconnect, Reconnected
    <2>1. TypeOK'
      BY <1>3 DEF TypeOK
    <2>2. AllCaptured' /\ CoversNeedConnection' /\ QueueInv' /\ RemovedOrMissed'
      BY <1>3 DEF AllCaptured, CoversNeedConnection, QueueInv, RemovedOrMissed
    <2>3. OpenInv' /\ VisitedInv'
      BY <1>3 DEF OpenInv, VisitedInv, TypeOK, Removing
    <2> QED BY <2>1, <2>2, <2>3
  <1>4. ASSUME NEW a \in Addrs, AddCover(u, a)
        PROVE  IInv'
    <2> USE DEF AddCover, HasWriter
    <2>1. TypeOK'
      BY <1>4 DEF TypeOK
    <2>2. AllCaptured' /\ CoversNeedConnection' /\ QueueInv' /\ RemovedOrMissed'
      BY <1>4 DEF AllCaptured, CoversNeedConnection, QueueInv, RemovedOrMissed
    <2>3. OpenInv' /\ VisitedInv'
      BY <1>4 DEF OpenInv, VisitedInv, TypeOK, Removing
    <2> QED BY <2>1, <2>2, <2>3
  <1> QED BY <1>1, <1>2, <1>3, <1>4

\* remove_covers() and close(), from their start and from a notifier that has stopped.
LEMMA RemovalStep ==
    ASSUME IInv, NEW u \in Users,
           (\E then \in Removing : Remove(u, then)) \/ Stopped(u)
    PROVE  IInv'
  <1>1. ASSUME NEW then \in Removing, Remove(u, then)
        PROVE  IInv'
    <2>1. covers \in SUBSET Addrs /\ notifier \in [Addrs -> {"none", "live", "failed"}]
      BY DEF IInv, ManagerInv, TypeOK
    <2>2. /\ pc[u] \in {"ready"} \cup Removing
          /\ notifier' = notifier
          /\ Proceed(u, then, covers, {}, notifier)
          /\ UNCHANGED <<tracker, subject, received, handled>>
      BY <1>1 DEF Remove
    <2> QED BY <2>1, <2>2, ProceedStep
  <1>2. CASE Stopped(u)
    <2> DEFINE tasks == [notifier EXCEPT ![target[u]] = "none"]
    <2>1. /\ notifier' = tasks /\ tasks \in [Addrs -> {"none", "live", "failed"}]
          /\ pc[u] \in Removing /\ pc[u] \in {"ready"} \cup Removing
          /\ UNCHANGED <<tracker, subject, received, handled>>
      BY <1>2 DEF Stopped, NotifierStopped, IInv, ManagerInv, TypeOK
    <2>2. dict[u] \in SUBSET Addrs /\ visited[u] \in SUBSET dict[u]
      BY DEF IInv, ManagerInv, TypeOK, VisitedInv
    <2>3. \A a \in Addrs : /\ tasks[a] = "live" => notifier[a] = "live"
                           /\ a = target[u] => tasks[a] # "live"
      BY DEF IInv, ManagerInv, TypeOK
    <2>4. \A a \in visited[u] : tasks[a] = "live" => a \in missed
      BY <2>1, <2>2, <2>3 DEF IInv, VisitedInv
    <2>5. CASE Proceed(u, pc[u], dict[u], visited[u], tasks)
      <3> HIDE DEF tasks
      <3> QED BY <2>1, <2>2, <2>3, <2>4, <2>5, ProceedStep
    <2>6. CASE RemovalRaises(u)
      <3> HIDE DEF tasks
      <3> QED BY <2>1, <2>3, <2>6, RaisesStep
    <2> QED BY <1>2, <2>5, <2>6 DEF Stopped, NotifierStopped
  <1> QED BY <1>1, <1>2

\* A message arrives.
LEMMA ReceiveStep ==
    ASSUME IInv, NEW m \in Addrs \cup {Stranger}, Receive(m)
    PROVE  IInv'
  <1> USE DEF IInv, ManagerInv, Receive, removeVars, coverVars
  <1>1. m # Sentinel /\ queue \in Seq(Addrs \cup {Stranger, Sentinel})
    BY ManagerAssumption DEF TypeOK
  <1>2. /\ Len(queue') = Len(queue) + 1
        /\ \A i \in 1..Len(queue) : queue'[i] = queue[i]
        /\ queue'[Len(queue) + 1] = m
    BY <1>1
  <1>3. TypeOK'
    BY <1>1 DEF TypeOK
  <1>4. AllCaptured'
    BY <1>1, <1>2 DEF AllCaptured, TypeOK
  <1>6. QueueInv'
    BY <1>1, <1>2, SMTT(40) DEF QueueInv
  <1>5. CoversNeedConnection' /\ OpenInv' /\ RemovedOrMissed' /\ VisitedInv'
    BY DEF CoversNeedConnection, OpenInv, RemovedOrMissed, VisitedInv
  <1> QED BY <1>3, <1>4, <1>5, <1>6

\* The tracker takes a message, or the end of its reader.
LEMMA TakeMessageStep ==
    ASSUME IInv, TakeMessage
    PROVE  IInv'
  <1> USE DEF IInv, ManagerInv, TakeMessage, removeVars, coverVars
  <1>1. /\ queue \in Seq(Addrs \cup {Stranger, Sentinel}) /\ queue # <<>>
        /\ Len(queue) \in Nat /\ Len(queue) >= 1
        /\ Len(queue') = Len(queue) - 1
        /\ Head(queue) = queue[1]
        /\ \A i \in 1..Len(queue') : queue'[i] = queue[i + 1]
        /\ queue' \in Seq(Addrs \cup {Stranger, Sentinel})
    BY DEF TypeOK
  <1>2. TypeOK'
    BY <1>1 DEF TypeOK, Tracked
  <1>3. CoversNeedConnection' /\ RemovedOrMissed' /\ VisitedInv'
    BY DEF CoversNeedConnection, RemovedOrMissed, VisitedInv
  <1>4. CASE Head(queue) = Sentinel
    <2>1. reader = "stopped" /\ Len(queue) = 1
      <3>1. 1 \in 1..Len(queue) /\ queue[1] = Sentinel
        BY <1>1, <1>4
      <3> QED BY <1>1, <3>1 DEF QueueInv, TypeOK
    <2>2. reader' = "none" /\ queue' = <<>> /\ ~conn
      BY <1>1, <1>4, <2>1 DEF AllCaptured
    <2> QED BY <1>2, <1>3, <2>1, <2>2, SMTT(40) DEF AllCaptured, QueueInv, OpenInv
  <1>5. CASE Head(queue) # Sentinel
    <2>1. reader' = reader /\ handled' = handled + 1
      BY <1>5
    <2>2. AllCaptured'
      BY <1>1, <2>1, SMTT(40) DEF AllCaptured, TypeOK
    <2>3. QueueInv'
      <3>1. CASE reader = "stopped"
        <4>0. \A i \in 1..Len(queue) : queue[i] = Sentinel <=> i = Len(queue)
          BY <3>1 DEF QueueInv
        <4>1. 1 \in 1..Len(queue) /\ queue[1] # Sentinel
          BY <1>1, <1>5
        <4>2. 1 # Len(queue)
          BY <4>0, <4>1
        <4>3. Len(queue) > 1
          BY <1>1, <4>2
        <4>4. ASSUME NEW i \in 1..Len(queue')
              PROVE  queue'[i] = Sentinel <=> i = Len(queue')
          <5>1. i + 1 \in 1..Len(queue) /\ queue'[i] = queue[i + 1]
            BY <1>1
          <5>2. queue[i + 1] = Sentinel <=> i + 1 = Len(queue)
            BY <4>0, <5>1
          <5>3. i + 1 = Len(queue) <=> i = Len(queue')
            BY <1>1
          <5> QED BY <5>1, <5>2, <5>3
        <4>5. queue' # <<>>
          <5>1. Len(queue') # 0
            BY <1>1, <4>3
          <5>2. Len(<<>>) = 0
            OBVIOUS
          <5> QED BY <5>1, <5>2, Zenon
        <4> QED BY <2>1, <3>1, <4>4, <4>5 DEF QueueInv
      <3>2. CASE reader = "live"
        BY <1>1, <2>1, <3>2 DEF QueueInv
      <3> QED BY <1>1, <2>1, <3>1, <3>2 DEF QueueInv, TypeOK
    <2> QED BY <1>2, <1>3, <2>1, <2>2, <2>3 DEF OpenInv
  <1> QED BY <1>4, <1>5

\* The notifier of the tracker's cover has its task.
LEMMA ArmStep ==
    ASSUME IInv, Arm
    PROVE  IInv'
  <1> USE DEF IInv, ManagerInv, Arm, sessionVars, removeVars
  <1>1. subject \in Addrs
    BY DEF TypeOK
  <1>2. TypeOK'
    BY <1>1 DEF TypeOK
  <1>3. AllCaptured' /\ CoversNeedConnection' /\ QueueInv' /\ OpenInv'
    BY DEF AllCaptured, CoversNeedConnection, QueueInv, OpenInv
  <1>4. RemovedOrMissed'
    BY <1>1 DEF RemovedOrMissed, BeingRemoved, TypeOK
  <1>5. VisitedInv'
    <2>1. ASSUME NEW u \in Users, pc[u] \in Removing,
                 NEW b \in visited[u] \ {target[u]}, notifier'[b] = "live"
          PROVE  b \in missed'
      <3>1. b \in dict[u] /\ b \in Addrs
        BY DEF VisitedInv, TypeOK
      <3>2. CASE b = subject
        BY <2>1, <3>1, <3>2 DEF BeingRemoved
      <3>3. CASE b # subject
        BY <2>1, <3>1, <3>3 DEF VisitedInv, TypeOK
      <3> QED BY <3>2, <3>3
    <2> QED BY <2>1 DEF VisitedInv
  <1> QED BY <1>2, <1>3, <1>4, <1>5

\* The other steps.
LEMMA OtherStep ==
    ASSUME IInv,
           \/ StartTracker \/ Updated \/ Forget \/ LoseLink
           \/ \E a \in Addrs : SetIdle(a)
    PROVE  IInv'
  <1> USE DEF IInv, ManagerInv, sessionVars, trackVars, removeVars, coverVars
  <1>1. CASE StartTracker \/ Updated \/ LoseLink
    <2> USE DEF StartTracker, Updated, LoseLink
    <2>1. TypeOK'
      BY <1>1 DEF TypeOK
    <2> QED BY <1>1, <2>1 DEF AllCaptured, CoversNeedConnection, QueueInv, OpenInv,
                              RemovedOrMissed, VisitedInv
  <1>2. CASE Forget
    <2>1. TypeOK'
      BY <1>2 DEF Forget, TypeOK
    <2> QED BY <1>2, <2>1 DEF Forget, AllCaptured, CoversNeedConnection, QueueInv,
                              OpenInv, RemovedOrMissed, VisitedInv
  <1>3. ASSUME NEW a \in Addrs, SetIdle(a)
        PROVE  IInv'
    <2>1. TypeOK'
      BY <1>3 DEF SetIdle, TypeOK
    <2>2. AllCaptured' /\ CoversNeedConnection' /\ QueueInv' /\ OpenInv'
      BY <1>3 DEF SetIdle, AllCaptured, CoversNeedConnection, QueueInv, OpenInv
    <2>3. \A b \in Addrs : notifier'[b] = "live" => notifier[b] = "live"
      BY <1>3 DEF SetIdle, TypeOK
    <2>4. RemovedOrMissed'
      BY <1>3, <2>3 DEF SetIdle, RemovedOrMissed
    <2>5. VisitedInv'
      <3>1. ASSUME NEW u \in Users, NEW b \in visited[u]
            PROVE  b \in Addrs
        BY DEF TypeOK
      <3> QED BY <1>3, <2>3, <3>1 DEF SetIdle, VisitedInv
    <2> QED BY <2>1, <2>2, <2>4, <2>5
  <1> QED BY <1>1, <1>2, <1>3

LEMMA Inductive == IInv /\ [Next]_vars => IInv'
  <1> SUFFICES ASSUME IInv, [Next]_vars PROVE IInv'
    OBVIOUS
  <1>1. CASE UNCHANGED vars
    BY <1>1 DEF vars, sessionVars, trackVars, removeVars, coverVars, IInv, ManagerInv,
                TypeOK, AllCaptured, CoversNeedConnection, QueueInv, OpenInv,
                RemovedOrMissed, VisitedInv
  <1>2. ASSUME NEW u \in Users, User(u)
        PROVE  IInv'
    BY <1>2, SessionStep, RemovalStep DEF User, Removing
  <1>3. CASE Tracker
    BY <1>3, TakeMessageStep, ArmStep, OtherStep DEF Tracker
  <1>4. CASE \E m \in Addrs \cup {Stranger} : Receive(m)
    BY <1>4, ReceiveStep
  <1>5. CASE StartTracker \/ Forget \/ LoseLink \/ \E a \in Addrs : SetIdle(a)
    BY <1>5, OtherStep
  <1> QED BY <1>1, <1>2, <1>3, <1>4, <1>5 DEF Next

-----------------------------------------------------------------------------
\* However its users open, close and reconnect the manager, whatever fails, and for any
\* number of covers and messages: no message is lost while it is open, and a closed
\* manager has no covers.
THEOREM NoMessageMissed == Spec => []ManagerInv
  <1>1. IInv => ManagerInv
    BY DEF IInv
  <1> QED BY Initially, Inductive, <1>1, PTL DEF Spec

\* The two ways in which a cover that was removed can keep its notifier's task are the
\* only ones, for any number of users and covers.
THEOREM OnlyMissedTasksStay == Spec => []RemovedOrMissed
  <1>1. IInv => RemovedOrMissed
    BY DEF IInv
  <1> QED BY Initially, Inductive, <1>1, PTL DEF Spec

-----------------------------------------------------------------------------
(* Observers: the invariant *)

Tellings == [cover : Covers \cup {"none"}, stage : {"away", "arriving", "moved", "idle"},
             told : SUBSET Observers, size : Nat, changed : BOOLEAN]

\* The loggers that observe a cover are those that log, and who is to be told is there.
AttachedInv ==
    \A c \in Covers : /\ observers[c] \cap Loggers = logging
                      /\ due[c] \subseteq observers[c]

\* If not everybody who is to be told knows, then somebody is telling them since the
\* cover moved last, or comes to tell them: those that he has told know.
ReachedInv ==
    \A c \in Covers :
        \/ \A o \in due[c] : <<o, c>> \in knows
        \/ \E n \in Notifiers :
              /\ telling[n].cover = c
              /\ \A o \in due[c] \cap telling[n].told : <<o, c>> \in knows

\* What a logger logged is right for each cover of which it has been told.
LoggedInv ==
    \A l \in Loggers, c \in Covers : <<l, c>> \in knows => line[l][c] = pos[c]

\* A notifier that has something to tell tells it of a cover; when it arrives it has told
\* nobody.
SilentInv ==
    \A n \in Notifiers :
        \/ telling[n] = Silent
        \/ /\ telling[n].cover \in Covers
           /\ telling[n].stage # "away"
           /\ telling[n].stage = "arriving" => telling[n].told = {}

ObserversIInv ==
    /\ ObserversTypeOK
    /\ SilentInv
    /\ AttachedInv
    /\ ReachedInv
    /\ LoggedInv

LEMMA CoversAre == /\ "screen" \in Covers /\ "mask" \in Covers /\ "none" \notin Covers
                   /\ \A c \in Covers : c = "screen" \/ c = "mask"
  BY DEF Covers

LEMMA ObserversInitially == ObserversInit => ObserversIInv
  <1> SUFFICES ASSUME ObserversInit PROVE ObserversIInv
    OBVIOUS
  <1>1. PICK ws \in SUBSET Watchers : observers = [c \in Covers |-> ws]
    BY DEF ObserversInit
  <1>2. ObserversTypeOK
    <2>1. Silent \in Tellings
      BY DEF Silent, Tellings
    <2>2. telling \in [Notifiers -> Tellings]
      BY <2>1 DEF ObserversInit
    <2>3. FullyUp \in 0..FullyUp /\ 0 \in 0..MaxMoves /\ 0 \in 0..MaxChanges
      BY ObserversAssumption
    <2>4. observers \in [Covers -> SUBSET Observers]
      BY <1>1 DEF Observers
    <2> QED BY <2>2, <2>3, <2>4 DEF ObserversInit, ObserversTypeOK, Tellings
  <1>3. AttachedInv
    <2>1. ws \cap Loggers = {}
      BY ObserversAssumption
    <2> QED BY <1>1, <2>1 DEF ObserversInit, AttachedInv
  <1>4. ReachedInv
    BY DEF ObserversInit, ReachedInv
  <1>5. LoggedInv
    BY DEF ObserversInit, LoggedInv
  <1>6. SilentInv
    BY DEF ObserversInit, SilentInv
  <1> QED BY <1>2, <1>3, <1>4, <1>5, <1>6 DEF ObserversIInv

\* Some observers os are told, and the iteration goes on or ends: then those that are to
\* be told have been.
Goes(n, it, owed, os) ==
    /\ Update(it.cover, os)
    /\ \/ /\ telling' = [telling EXCEPT ![n] = [it EXCEPT !.told = @ \cup os]]
          /\ due' = [due EXCEPT ![it.cover] = owed]
       \/ /\ telling' = [telling EXCEPT ![n] = Silent]
          /\ \/ due' = [due EXCEPT ![it.cover] = owed \cap (it.told \cup os)]
             \/ /\ due' = [due EXCEPT ![it.cover] = owed]
                /\ observers[it.cover] \subseteq it.told \cup os

LEMMA GoOnIs ==
    ASSUME NEW n, NEW it \in Tellings, NEW owed, GoOn(n, it, owed)
    PROVE  \E os \in SUBSET observers[it.cover] : Goes(n, it, owed, os)
  <1> DEFINE left == IF it.changed THEN observers[it.cover] ELSE observers[it.cover] \ it.told
  <1>1. PICK ls \in SUBSET (left \cap Loggers) :
          \/ \E w \in left \cap Watchers :
                /\ Update(it.cover, ls \cup {w})
                /\ telling' = [telling EXCEPT ![n] = [it EXCEPT !.told = @ \cup ls \cup {w}]]
                /\ due' = [due EXCEPT ![it.cover] = owed]
          \/ /\ it.changed \/ left \ ls = {}
             /\ Update(it.cover, ls)
             /\ telling' = [telling EXCEPT ![n] = Silent]
             /\ due' = [due EXCEPT ![it.cover] =
                          IF it.changed THEN owed \cap (it.told \cup ls) ELSE owed]
    BY DEF GoOn
  <1>2. left \subseteq observers[it.cover]
    OBVIOUS
  <1>3. ASSUME NEW w \in left \cap Watchers,
               Update(it.cover, ls \cup {w}),
               telling' = [telling EXCEPT ![n] = [it EXCEPT !.told = @ \cup ls \cup {w}]],
               due' = [due EXCEPT ![it.cover] = owed]
        PROVE  Goes(n, it, owed, ls \cup {w}) /\ ls \cup {w} \in SUBSET observers[it.cover]
    <2>1. it.told \cup ls \cup {w} = it.told \cup (ls \cup {w})
      OBVIOUS
    <2>2. [it EXCEPT !.told = @ \cup ls \cup {w}] = [it EXCEPT !.told = @ \cup (ls \cup {w})]
      BY <2>1
    <2> QED BY <1>2, <1>3, <2>2 DEF Goes
  <1>4. ASSUME it.changed \/ left \ ls = {},
               Update(it.cover, ls),
               telling' = [telling EXCEPT ![n] = Silent],
               due' = [due EXCEPT ![it.cover] =
                         IF it.changed THEN owed \cap (it.told \cup ls) ELSE owed]
        PROVE  Goes(n, it, owed, ls)
    <2>1. CASE it.changed
      BY <1>4, <2>1 DEF Goes
    <2>2. CASE ~it.changed
      <3>1. observers[it.cover] \subseteq it.told \cup ls
        BY <1>4, <2>2
      <3> QED BY <1>4, <2>2, <3>1 DEF Goes
    <2> QED BY <2>1, <2>2
  <1> QED BY <1>1, <1>2, <1>3, <1>4

\* Whoever is told, the invariant holds.
LEMMA GoesKeeps ==
    ASSUME ObserversIInv, NEW n \in Notifiers, NEW it \in Tellings, it.cover \in Covers,
           it.stage \in {"moved", "idle"},
           NEW os \in SUBSET observers[it.cover], NEW owed \in SUBSET observers[it.cover],
           Goes(n, it, owed, os),
           \* it is the notifier's iteration, or a new one
           \/ telling[n] = it /\ owed = due[it.cover]
           \/ telling[n].cover \in {it.cover, "none"} /\ it.told = {},
           UNCHANGED <<imageDef, pos, observers, failed, logging, changes>>,
           moves' \in 0..MaxMoves
    PROVE  ObserversIInv'
  <1> DEFINE c == it.cover
  <1>0. ObserversTypeOK /\ SilentInv /\ AttachedInv /\ ReachedInv /\ LoggedInv
    BY DEF ObserversIInv
  <1>1. /\ line' = [l \in Loggers |-> IF l \in os THEN pos ELSE line[l]]
        /\ knows' = knows \cup (os \X {c})
    BY DEF Goes, Update
  <1>2. os \subseteq Observers /\ owed \subseteq Observers /\ telling \in [Notifiers -> Tellings]
    BY <1>0 DEF ObserversTypeOK, Tellings
  <1>3. \/ /\ telling'[n].cover = c /\ telling'[n].told = it.told \cup os
           /\ telling'[n].stage = it.stage /\ telling'[n] \in Tellings
           /\ due'[c] = owed
        \/ /\ telling'[n] = Silent
           /\ due'[c] \subseteq owed
           /\ \/ due'[c] \subseteq it.told \cup os
              \/ due'[c] = owed /\ observers[c] \subseteq it.told \cup os
    <2>1. due \in [Covers -> SUBSET Observers]
      BY <1>0 DEF ObserversTypeOK
    <2>2. CASE /\ telling' = [telling EXCEPT ![n] = [it EXCEPT !.told = @ \cup os]]
               /\ due' = [due EXCEPT ![c] = owed]
      <3>1. telling'[n] = [it EXCEPT !.told = @ \cup os] /\ due'[c] = owed
        BY <1>2, <2>1, <2>2
      <3>2. [it EXCEPT !.told = @ \cup os] \in Tellings
        BY <1>2 DEF Tellings
      <3> QED BY <3>1, <3>2 DEF Tellings
    <2>3. CASE /\ telling' = [telling EXCEPT ![n] = Silent]
               /\ \/ due' = [due EXCEPT ![c] = owed \cap (it.told \cup os)]
                  \/ /\ due' = [due EXCEPT ![c] = owed]
                     /\ observers[c] \subseteq it.told \cup os
      BY <1>2, <2>1, <2>3
    <2> QED BY <2>2, <2>3 DEF Goes
  <1>4. /\ \A m \in Notifiers \ {n} : telling'[m] = telling[m]
        /\ \A d \in Covers \ {c} : due'[d] = due[d]
        /\ telling' \in [Notifiers -> Tellings]
        /\ due' \in [Covers -> SUBSET Observers]
    <2>1. due \in [Covers -> SUBSET Observers] /\ Silent \in Tellings
      BY <1>0 DEF ObserversTypeOK, Silent, Tellings
    <2>2. [it EXCEPT !.told = @ \cup os] \in Tellings
      BY <1>2 DEF Tellings
    <2>3. \E t \in Tellings : telling' = [telling EXCEPT ![n] = t]
      BY <2>1, <2>2 DEF Goes
    <2>4. \E s \in SUBSET Observers : due' = [due EXCEPT ![c] = s]
      BY <1>2 DEF Goes
    <2> QED BY <1>2, <2>1, <2>3, <2>4
  <1>5. ObserversTypeOK'
    <2>1. line' \in [Loggers -> [Covers -> 0..FullyUp]]
      BY <1>0, <1>1 DEF ObserversTypeOK
    <2>2. knows' \subseteq Observers \X Covers
      BY <1>0, <1>1, <1>2 DEF ObserversTypeOK
    <2> QED BY <1>0, <1>4, <2>1, <2>2 DEF ObserversTypeOK, Tellings
  <1>6. AttachedInv'
    <2>1. ASSUME NEW d \in Covers
          PROVE  due'[d] \subseteq observers[d]
      BY <1>0, <1>3, <1>4 DEF AttachedInv
    <2> QED BY <1>0, <2>1 DEF AttachedInv
  <1>7. ReachedInv'
    <2> SUFFICES ASSUME NEW d \in Covers
                 PROVE  \/ \A o \in due'[d] : <<o, d>> \in knows'
                        \/ \E m \in Notifiers :
                              /\ telling'[m].cover = d
                              /\ \A o \in due'[d] \cap telling'[m].told : <<o, d>> \in knows'
      BY DEF ReachedInv
    <2>1. \A o \in os : <<o, c>> \in knows'
      BY <1>1
    <2>2. CASE d # c
      <3>1. due'[d] = due[d] /\ \A o : <<o, d>> \in knows => <<o, d>> \in knows'
        BY <1>1, <1>4, <2>2
      <3>2. telling[n].cover # d
        BY <2>2, CoversAre
      <3>3. \/ \A o \in due[d] : <<o, d>> \in knows
            \/ \E m \in Notifiers : /\ telling[m].cover = d
                                    /\ \A o \in due[d] \cap telling[m].told : <<o, d>> \in knows
        BY <1>0 DEF ReachedInv
      <3> QED BY <1>4, <3>1, <3>2, <3>3
    <2>3. CASE d = c /\ telling[n].cover \in {it.cover, "none"} /\ it.told = {}
      BY <1>3, <2>1, <2>3
    <2>4. CASE d = c /\ telling[n] = it /\ owed = due[c]
      <3>1. \A o : <<o, c>> \in knows => <<o, c>> \in knows'
        BY <1>1, <2>4
      <3>2. due'[c] \subseteq due[c]
        BY <1>3, <2>4
      <3>3. CASE \A o \in due[c] : <<o, c>> \in knows
        BY <2>4, <3>1, <3>2, <3>3
      <3>4. ASSUME NEW m \in Notifiers, telling[m].cover = c,
                   \A o \in due[c] \cap telling[m].told : <<o, c>> \in knows
            PROVE  \/ \A o \in due'[c] : <<o, c>> \in knows'
                   \/ \E k \in Notifiers :
                         /\ telling'[k].cover = c
                         /\ \A o \in due'[c] \cap telling'[k].told : <<o, c>> \in knows'
        <4>1. CASE m # n
          BY <1>4, <3>1, <3>2, <3>4, <4>1
        <4>2. CASE m = n
          <5>1. \A o \in due'[c] \cap (it.told \cup os) : <<o, c>> \in knows'
            BY <2>1, <2>4, <3>1, <3>2, <3>4, <4>2
          <5>2. CASE telling'[n].cover = c /\ telling'[n].told = it.told \cup os
            BY <5>1, <5>2
          <5>3. CASE due'[c] \subseteq it.told \cup os
            BY <5>1, <5>3
          <5>4. CASE due'[c] = owed /\ observers[c] \subseteq it.told \cup os
            <6>1. due'[c] \subseteq it.told \cup os
              BY <5>4
            <6> QED BY <5>1, <6>1
          <5> QED BY <1>3, <5>2, <5>3, <5>4
        <4> QED BY <4>1, <4>2
      <3>5. \/ \A o \in due[c] : <<o, c>> \in knows
            \/ \E m \in Notifiers : /\ telling[m].cover = c
                                    /\ \A o \in due[c] \cap telling[m].told : <<o, c>> \in knows
        BY <1>0 DEF ReachedInv
      <3> QED BY <2>4, <3>3, <3>4, <3>5
    <2> QED BY <2>2, <2>3, <2>4
  <1>8. LoggedInv'
    <2> SUFFICES ASSUME NEW l \in Loggers, NEW d \in Covers, <<l, d>> \in knows'
                 PROVE  line'[l][d] = pos'[d]
      BY DEF LoggedInv
    <2>1. CASE l \in os
      BY <1>1, <2>1
    <2>2. CASE l \notin os
      <3>1. line'[l] = line[l] /\ <<l, d>> \in knows /\ l \in Observers
        BY <1>1, <2>2 DEF Observers
      <3>2. line[l][d] = pos[d]
        BY <1>0, <3>1 DEF LoggedInv
      <3> QED BY <3>1, <3>2
    <2> QED BY <2>1, <2>2
  <1>9. SilentInv'
    BY <1>0, <1>3, <1>4 DEF SilentInv
  <1> QED BY <1>5, <1>6, <1>7, <1>8, <1>9 DEF ObserversIInv

\* moved() or set_idle() comes to its first observers
LEMMA NotifyKeeps ==
    ASSUME ObserversIInv, NEW n \in Notifiers, NEW c \in Covers, NEW stage \in {"moved", "idle"},
           NotifyObservers(n, c, stage),
           telling[n].cover \in {c, "none"}, moves' \in 0..MaxMoves
    PROVE  ObserversIInv'
  <1> DEFINE it == [Silent EXCEPT !.cover = c, !.stage = stage, !.size = Cardinality(observers[c])]
  <1>0. ObserversTypeOK /\ AttachedInv
    BY DEF ObserversIInv
  <1>1. Cardinality(observers[c]) \in Nat
    <2>1. observers[c] \subseteq Observers
      BY <1>0 DEF ObserversTypeOK
    <2>2. IsFiniteSet(observers[c])
      BY <2>1, ObserversAssumption, FS_Subset
    <2> QED BY <2>2, FS_CardinalityType
  <1>2. it \in Tellings /\ it.cover = c /\ it.stage = stage /\ it.told = {}
    BY <1>1 DEF Silent, Tellings
  <1>3. observers[c] \cup logging = observers[c]
    BY <1>0 DEF AttachedInv
  <1>4. GoOn(n, it, observers[c]) /\ UNCHANGED <<imageDef, pos, observers, failed, logging, changes>>
    BY <1>3 DEF NotifyObservers
  <1> HIDE DEF it
  <1>5. PICK os \in SUBSET observers[c] : Goes(n, it, observers[c], os)
    BY <1>2, <1>4, GoOnIs
  <1> QED BY <1>2, <1>4, <1>5, GoesKeeps

LEMMA SetCoverIdleKeeps ==
    ASSUME ObserversIInv, NEW n \in Notifiers, NEW c \in Covers, SetCoverIdle(n, c)
    PROVE  ObserversIInv'
  <1>1. NotifyObservers(n, c, "idle") /\ telling[n].cover = "none"
    BY DEF SetCoverIdle, Silent
  <1>2. moves' \in 0..MaxMoves
    BY ObserversAssumption DEF SetCoverIdle, ObserversIInv, ObserversTypeOK
  <1> QED BY <1>1, <1>2, NotifyKeeps

LEMMA MovedKeeps ==
    ASSUME ObserversIInv, NEW n \in Notifiers, Moved(n)
    PROVE  ObserversIInv'
  <1>1. NotifyObservers(n, telling[n].cover, "moved") /\ telling[n].cover \in Covers
    BY DEF Moved, ObserversIInv, SilentInv, Silent
  <1>2. moves' \in 0..MaxMoves
    BY DEF Moved, ObserversIInv, ObserversTypeOK
  <1> QED BY <1>1, <1>2, NotifyKeeps

\* When a cover has moved nobody knows, but somebody comes to tell.
LEMMA MoveKeeps ==
    ASSUME ObserversIInv, NEW n \in Notifiers, NEW c \in Covers, NEW p \in 0..FullyUp,
           Move(n, c, p)
    PROVE  ObserversIInv'
  <1> DEFINE it == [Silent EXCEPT !.cover = c, !.stage = "arriving"]
  <1>0. ObserversTypeOK /\ SilentInv /\ AttachedInv /\ ReachedInv /\ LoggedInv
    BY DEF ObserversIInv
  <1>1. /\ pos' = [pos EXCEPT ![c] = p]
        /\ knows' = IF p = pos[c] THEN knows ELSE knows \ (Observers \X {c})
        /\ telling' = [telling EXCEPT ![n] = it]
        /\ UNCHANGED <<imageDef, observers, failed, line, logging, due, changes>>
        /\ moves' \in 0..MaxMoves
        /\ telling[n] = Silent
    BY <1>0, ObserversAssumption DEF Move, ObserversTypeOK
  <1>2. it \in Tellings /\ it.cover = c /\ it.stage = "arriving" /\ it.told = {}
    BY DEF Silent, Tellings
  <1> HIDE DEF it
  <1>3. /\ telling' \in [Notifiers -> Tellings] /\ telling'[n] = it
        /\ \A m \in Notifiers \ {n} : telling'[m] = telling[m]
    BY <1>0, <1>1, <1>2 DEF ObserversTypeOK, Tellings
  <1>4. /\ pos' \in [Covers -> 0..FullyUp] /\ pos'[c] = p
        /\ \A d \in Covers \ {c} : pos'[d] = pos[d]
    BY <1>0, <1>1 DEF ObserversTypeOK
  <1>5. ObserversTypeOK'
    BY <1>0, <1>1, <1>3, <1>4 DEF ObserversTypeOK, Tellings
  <1>6. SilentInv'
    BY <1>0, <1>2, <1>3 DEF SilentInv
  <1>7. AttachedInv'
    BY <1>0, <1>1 DEF AttachedInv
  <1>8. ReachedInv'
    <2> SUFFICES ASSUME NEW d \in Covers
                 PROVE  \/ \A o \in due[d] : <<o, d>> \in knows'
                        \/ \E m \in Notifiers :
                              /\ telling'[m].cover = d
                              /\ \A o \in due[d] \cap telling'[m].told : <<o, d>> \in knows'
      BY <1>1 DEF ReachedInv
    <2>1. CASE d = c
      BY <1>2, <1>3, <2>1
    <2>2. CASE d # c
      <3>1. \A o : <<o, d>> \in knows => <<o, d>> \in knows'
        BY <1>1, <2>2
      <3>2. telling[n].cover # d
        BY <1>1, CoversAre DEF Silent
      <3>3. \/ \A o \in due[d] : <<o, d>> \in knows
            \/ \E m \in Notifiers : /\ telling[m].cover = d
                                    /\ \A o \in due[d] \cap telling[m].told : <<o, d>> \in knows
        BY <1>0 DEF ReachedInv
      <3> QED BY <1>3, <3>1, <3>2, <3>3
    <2> QED BY <2>1, <2>2
  <1>9. LoggedInv'
    <2> SUFFICES ASSUME NEW l \in Loggers, NEW d \in Covers, <<l, d>> \in knows'
                 PROVE  line[l][d] = pos'[d]
      BY <1>1 DEF LoggedInv
    <2>1. <<l, d>> \in knows /\ (d = c => p = pos[c])
      BY <1>1 DEF Observers
    <2> QED BY <1>0, <1>4, <2>1 DEF LoggedInv
  <1> QED BY <1>5, <1>6, <1>7, <1>8, <1>9 DEF ObserversIInv

\* A notifier ends early: then those that it has not told are not to be told any more, or
\* another one comes who will tell them all.
LEMMA EndsEarlyKeeps ==
    ASSUME ObserversIInv, NEW n \in Notifiers, NEW c \in Covers, telling[n].cover = c,
           telling' = [telling EXCEPT ![n] = Silent],
           failed' \subseteq Covers,
           \/ due' = [due EXCEPT ![c] = @ \cap telling[n].told]
           \/ due' = due /\ \E m \in Notifiers \ {n} : telling[m].cover = c /\ telling[m].told = {},
           UNCHANGED <<imageDef, pos, observers, line, logging, knows, moves, changes>>
    PROVE  ObserversIInv'
  <1>0. ObserversTypeOK /\ SilentInv /\ AttachedInv /\ ReachedInv /\ LoggedInv
    BY DEF ObserversIInv
  <1>1. /\ telling' \in [Notifiers -> Tellings] /\ telling'[n] = Silent
        /\ \A m \in Notifiers \ {n} : telling'[m] = telling[m]
    BY <1>0 DEF ObserversTypeOK, Silent, Tellings
  <1>2. /\ due' \in [Covers -> SUBSET Observers]
        /\ \A d \in Covers : due'[d] \subseteq due[d]
        /\ \/ due'[c] \subseteq telling[n].told
           \/ \E m \in Notifiers \ {n} : telling[m].cover = c /\ telling[m].told = {}
    BY <1>0 DEF ObserversTypeOK
  <1>3. ObserversTypeOK'
    BY <1>0, <1>1, <1>2 DEF ObserversTypeOK, Tellings
  <1>4. SilentInv' /\ LoggedInv'
    BY <1>0, <1>1 DEF SilentInv, LoggedInv
  <1>5. AttachedInv'
    BY <1>0, <1>2 DEF AttachedInv
  <1>6. ReachedInv'
    <2> SUFFICES ASSUME NEW d \in Covers
                 PROVE  \/ \A o \in due'[d] : <<o, d>> \in knows
                        \/ \E m \in Notifiers :
                              /\ telling'[m].cover = d
                              /\ \A o \in due'[d] \cap telling'[m].told : <<o, d>> \in knows
      BY DEF ReachedInv
    <2>1. CASE \A o \in due[d] : <<o, d>> \in knows
      BY <1>2, <2>1
    <2>2. ASSUME NEW m \in Notifiers, telling[m].cover = d,
                 \A o \in due[d] \cap telling[m].told : <<o, d>> \in knows
          PROVE  \/ \A o \in due'[d] : <<o, d>> \in knows
                 \/ \E k \in Notifiers :
                       /\ telling'[k].cover = d
                       /\ \A o \in due'[d] \cap telling'[k].told : <<o, d>> \in knows
      <3>1. CASE m # n
        BY <1>1, <1>2, <2>2, <3>1
      <3>2. CASE m = n
        BY <1>1, <1>2, <2>2, <3>2
      <3> QED BY <3>1, <3>2
    <2>3. \/ \A o \in due[d] : <<o, d>> \in knows
          \/ \E m \in Notifiers : /\ telling[m].cover = d
                                  /\ \A o \in due[d] \cap telling[m].told : <<o, d>> \in knows
      BY <1>0 DEF ReachedInv
    <2> QED BY <2>1, <2>2, <2>3
  <1> QED BY <1>3, <1>4, <1>5, <1>6 DEF ObserversIInv

\* The iteration of set_idle() is cancelled by a movement, which tells the observers itself.
LEMMA IdleCancelledKeeps ==
    ASSUME ObserversIInv, NEW n \in Notifiers, IdleCancelled(n)
    PROVE  ObserversIInv'
  <1> DEFINE c == telling[n].cover
  <1>1. PICK m \in Notifiers : telling[m].cover = c /\ telling[m].stage = "arriving"
    BY DEF IdleCancelled
  <1>2. telling[n].stage = "idle" /\ m # n
    BY <1>1 DEF IdleCancelled
  <1>3. c \in Covers /\ telling[m].told = {} /\ failed \subseteq Covers
    BY <1>1, <1>2 DEF ObserversIInv, ObserversTypeOK, SilentInv, Silent
  <1>4. /\ telling' = [telling EXCEPT ![n] = Silent]
        /\ UNCHANGED <<imageDef, pos, observers, failed, line, logging, knows, due, moves, changes>>
    BY DEF IdleCancelled
  <1> QED BY <1>1, <1>2, <1>3, <1>4, EndsEarlyKeeps

\* A notifier is cut short: it raises, or is cancelled.
LEMMA CutShortKeeps ==
    ASSUME ObserversIInv, NEW n \in Notifiers, telling[n] # Silent, CutShort(n),
           failed' \subseteq Covers,
           UNCHANGED <<imageDef, pos, observers, line, logging, knows, moves, changes>>
    PROVE  ObserversIInv'
  <1> DEFINE c == telling[n].cover
  <1>1. c \in Covers
    BY DEF ObserversIInv, SilentInv
  <1>2. /\ telling' = [telling EXCEPT ![n] = Silent]
        /\ due' = [due EXCEPT ![c] = @ \cap telling[n].told]
    BY DEF CutShort
  <1> QED BY <1>1, <1>2, EndsEarlyKeeps

LEMMA RaisesKeeps ==
    ASSUME ObserversIInv, NEW n \in Notifiers, Telling(n), Raises(n),
           UNCHANGED <<imageDef, pos, observers, logging, moves, changes>>
    PROVE  ObserversIInv'
  <1>1. telling[n] # Silent
    BY DEF Telling, Silent
  <1>2. telling[n].cover \in Covers /\ failed \subseteq Covers
    BY <1>1 DEF ObserversIInv, ObserversTypeOK, SilentInv
  <1>3. failed' \subseteq Covers /\ CutShort(n) /\ UNCHANGED <<line, knows>>
    BY <1>2 DEF Raises
  <1> QED BY <1>1, <1>3, CutShortKeeps

LEMMA CancelledKeeps ==
    ASSUME ObserversIInv, NEW n \in Notifiers, Cancelled(n) \/ MovedRaises(n)
    PROVE  ObserversIInv'
  <1>1. telling[n] # Silent
    BY DEF Cancelled, MovedRaises, Silent
  <1>2. /\ CutShort(n) /\ failed' = failed
        /\ UNCHANGED <<imageDef, pos, observers, line, logging, knows, moves, changes>>
    BY DEF Cancelled, MovedRaises
  <1>3. failed \subseteq Covers
    BY DEF ObserversIInv, ObserversTypeOK
  <1> QED BY <1>1, <1>2, <1>3, CutShortKeeps

\* The iteration over the observers ends early, or goes on.
LEMMA UpdateReturnsKeeps ==
    ASSUME ObserversIInv, NEW n \in Notifiers, UpdateReturns(n)
    PROVE  ObserversIInv'
  <1> DEFINE it == telling[n]
             c == it.cover
  <1>0. ObserversTypeOK /\ AttachedInv
    BY DEF ObserversIInv
  <1>1. /\ c \in Covers /\ it \in Tellings /\ it.stage \in {"moved", "idle"}
        /\ failed \subseteq Covers /\ moves \in 0..MaxMoves
        /\ UNCHANGED <<imageDef, pos, observers, logging, moves, changes>>
    BY DEF UpdateReturns, Telling, ObserversIInv, SilentInv, Silent, ObserversTypeOK, Tellings
  <1>2. CASE Cardinality(observers[c]) # it.size
    <2>1. Telling(n) /\ Raises(n)
      BY <1>2 DEF UpdateReturns
    <2> QED BY <1>1, <2>1, RaisesKeeps
  <1>3. CASE ~(Cardinality(observers[c]) # it.size)
    <2>1. GoOn(n, it, due[c]) /\ UNCHANGED failed
      BY <1>3 DEF UpdateReturns
    <2>2. PICK os \in SUBSET observers[c] : Goes(n, it, due[c], os)
      BY <1>1, <2>1, GoOnIs
    <2>3. due[c] \in SUBSET observers[c]
      BY <1>0, <1>1 DEF AttachedInv
    <2> HIDE DEF it
    <2>4. telling[n] = it
      BY DEF it
    <2> QED BY <1>1, <2>1, <2>2, <2>3, <2>4, GoesKeeps
  <1> QED BY <1>2, <1>3

\* However the sets of observers change, those that stay are told as before.
LEMMA ChangeKeeps ==
    ASSUME ObserversIInv, NEW os \in [Covers -> SUBSET Observers], Change(os),
           logging' \subseteq Loggers,
           \A c \in Covers : os[c] \cap Loggers = logging'
    PROVE  ObserversIInv'
  <1>0. ObserversTypeOK /\ SilentInv /\ AttachedInv /\ ReachedInv /\ LoggedInv
    BY DEF ObserversIInv
  <1>1. /\ observers' = os
        /\ UNCHANGED <<imageDef, pos, failed, line, knows, moves>>
        /\ changes' \in 0..MaxChanges
    BY <1>0, ObserversAssumption DEF Change, ObserversTypeOK
  <1>2. /\ telling' \in [Notifiers -> Tellings]
        /\ \A n \in Notifiers : /\ telling'[n].cover = telling[n].cover
                                /\ telling'[n].stage = telling[n].stage
                                /\ telling'[n].told = telling[n].told
                                /\ telling[n] = Silent => telling'[n] = Silent
    <2> DEFINE flag(n) == LET c == telling[n].cover
                          IN  IF Telling(n) /\ os[c] # observers[c]
                              THEN [telling[n] EXCEPT !.changed = TRUE] ELSE telling[n]
    <2>1. telling' = [n \in Notifiers |-> flag(n)]
      BY DEF Change
    <2>2. ASSUME NEW n \in Notifiers
          PROVE  /\ flag(n) \in Tellings
                 /\ flag(n).cover = telling[n].cover /\ flag(n).stage = telling[n].stage
                 /\ flag(n).told = telling[n].told
                 /\ telling[n] = Silent => flag(n) = Silent
      <3>1. telling[n] \in Tellings
        BY <1>0 DEF ObserversTypeOK, Tellings
      <3>2. CASE Telling(n) /\ os[telling[n].cover] # observers[telling[n].cover]
        <4>1. flag(n) = [telling[n] EXCEPT !.changed = TRUE] /\ telling[n] # Silent
          BY <3>2 DEF Telling, Silent
        <4> HIDE DEF flag
        <4> QED BY <3>1, <4>1 DEF Tellings
      <3>3. CASE ~(Telling(n) /\ os[telling[n].cover] # observers[telling[n].cover])
        <4>1. flag(n) = telling[n]
          BY <3>3
        <4> HIDE DEF flag
        <4> QED BY <3>1, <4>1
      <3> QED BY <3>2, <3>3
    <2> HIDE DEF flag
    <2> QED BY <2>1, <2>2
  <1>3. /\ due' \in [Covers -> SUBSET Observers]
        /\ \A c \in Covers : due'[c] = due[c] \ (observers[c] \ os[c])
    <2>1. due' = [c \in Covers |-> due[c] \ (observers[c] \ os[c])]
      BY DEF Change
    <2> QED BY <1>0, <2>1 DEF ObserversTypeOK
  <1>4. ObserversTypeOK'
    BY <1>0, <1>1, <1>2, <1>3 DEF ObserversTypeOK, Tellings
  <1>5. SilentInv'
    BY <1>0, <1>2 DEF SilentInv
  <1>6. AttachedInv'
    <2>1. ASSUME NEW c \in Covers
          PROVE  due'[c] \subseteq os[c]
      <3>1. due[c] \subseteq observers[c]
        BY <1>0 DEF AttachedInv
      <3> QED BY <1>3, <3>1
    <2> QED BY <1>1, <2>1 DEF AttachedInv
  <1>7. ReachedInv'
    <2> SUFFICES ASSUME NEW c \in Covers
                 PROVE  \/ \A o \in due'[c] : <<o, c>> \in knows'
                        \/ \E n \in Notifiers :
                              /\ telling'[n].cover = c
                              /\ \A o \in due'[c] \cap telling'[n].told : <<o, c>> \in knows'
      BY DEF ReachedInv
    <2>1. due'[c] \subseteq due[c] /\ knows' = knows
      BY <1>1, <1>3
    <2>2. \/ \A o \in due[c] : <<o, c>> \in knows
          \/ \E n \in Notifiers : /\ telling[n].cover = c
                                  /\ \A o \in due[c] \cap telling[n].told : <<o, c>> \in knows
      BY <1>0 DEF ReachedInv
    <2> QED BY <1>2, <2>1, <2>2
  <1>8. LoggedInv'
    BY <1>0, <1>1 DEF LoggedInv
  <1> QED BY <1>4, <1>5, <1>6, <1>7, <1>8 DEF ObserversIInv

LEMMA ObserversInductive ==
    ASSUME ObserversIInv, [ObserversNext]_observersVars PROVE ObserversIInv'
  <1>0. ObserversTypeOK /\ AttachedInv
    BY DEF ObserversIInv
  <1>1. ASSUME NEW n \in Notifiers, NEW c \in Covers,
               SetCoverIdle(n, c) \/ \E p \in 0..FullyUp : Move(n, c, p)
        PROVE  ObserversIInv'
    BY <1>1, SetCoverIdleKeeps, MoveKeeps
  <1>2. ASSUME NEW n \in Notifiers,
               \/ UpdateReturns(n) \/ UpdateRaises(n)
               \/ Cancelled(n) \/ IdleCancelled(n) \/ Moved(n) \/ MovedRaises(n)
        PROVE  ObserversIInv'
    <2>1. UpdateRaises(n) =>
              /\ Telling(n) /\ Raises(n)
              /\ UNCHANGED <<imageDef, pos, observers, logging, moves, changes>>
      BY DEF UpdateRaises
    <2> QED BY <1>2, <2>1, UpdateReturnsKeeps, RaisesKeeps, CancelledKeeps, IdleCancelledKeeps,
               MovedKeeps
  <1>3. ASSUME NEW w \in Watchers, NEW c \in Covers, Attach(w, c) \/ Detach(w, c)
        PROVE  ObserversIInv'
    <2>1. w \in Observers /\ w \notin Loggers
      BY ObserversAssumption DEF Observers
    <2>2. PICK s \in SUBSET Observers :
             s \cap Loggers = observers[c] \cap Loggers /\ Change([observers EXCEPT ![c] = s])
      <3>1. CASE Attach(w, c)
        <4>1. /\ observers[c] \cup {w} \in SUBSET Observers
              /\ (observers[c] \cup {w}) \cap Loggers = observers[c] \cap Loggers
          BY <1>0, <2>1 DEF ObserversTypeOK
        <4> QED BY <3>1, <4>1 DEF Attach
      <3>2. CASE Detach(w, c)
        <4>1. /\ observers[c] \ {w} \in SUBSET Observers
              /\ (observers[c] \ {w}) \cap Loggers = observers[c] \cap Loggers
          BY <1>0, <2>1 DEF ObserversTypeOK
        <4> QED BY <3>2, <4>1 DEF Detach
      <3> QED BY <1>3, <3>1, <3>2
    <2> DEFINE os == [observers EXCEPT ![c] = s]
    <2>3. os \in [Covers -> SUBSET Observers]
      BY <1>0 DEF ObserversTypeOK
    <2>4. logging' = logging /\ logging \subseteq Loggers
      BY <1>0, <1>3 DEF Attach, Detach, ObserversTypeOK
    <2>5. \A d \in Covers : os[d] \cap Loggers = logging'
      BY <1>0, <2>2, <2>4 DEF AttachedInv, ObserversTypeOK
    <2> QED BY <2>2, <2>3, <2>4, <2>5, ChangeKeeps
  <1>4. ASSUME NEW l \in Loggers, StartLogging(l) \/ StopLogging(l)
        PROVE  ObserversIInv'
    <2>1. l \in Observers /\ observers \in [Covers -> SUBSET Observers]
      BY <1>0 DEF Observers, ObserversTypeOK
    <2>2. CASE StartLogging(l)
      <3> DEFINE os == [c \in Covers |->
                          observers[c] \cup (IF c \in Observed THEN {l} ELSE {})]
      <3>1. Change(os) /\ logging' = logging \cup {l}
        BY <2>2 DEF StartLogging
      <3>2. \A c \in Covers : os[c] = observers[c] \cup {l}
        BY DEF Observed
      <3>3. os \in [Covers -> SUBSET Observers]
        BY <2>1
      <3>4. logging' \subseteq Loggers
        BY <1>0, <3>1 DEF ObserversTypeOK
      <3>5. \A c \in Covers : os[c] \cap Loggers = logging'
        BY <1>0, <3>1, <3>2 DEF AttachedInv
      <3> HIDE DEF os
      <3> QED BY <3>1, <3>3, <3>4, <3>5, ChangeKeeps
    <2>3. CASE StopLogging(l)
      <3> DEFINE os == [c \in Covers |-> observers[c] \ {l}]
      <3>1. Change(os) /\ logging' = logging \ {l}
        BY <2>3 DEF StopLogging
      <3>2. os \in [Covers -> SUBSET Observers]
        BY <2>1
      <3>3. logging' \subseteq Loggers
        BY <1>0, <3>1 DEF ObserversTypeOK
      <3>4. \A c \in Covers : os[c] \cap Loggers = logging'
        BY <1>0, <3>1 DEF AttachedInv
      <3> HIDE DEF os
      <3> QED BY <3>1, <3>2, <3>3, <3>4, ChangeKeeps
    <2> QED BY <1>4, <2>2, <2>3
  <1>5. CASE UNCHANGED observersVars
    BY <1>5 DEF observersVars, ObserversIInv, ObserversTypeOK, SilentInv, AttachedInv,
                ReachedInv, LoggedInv
  <1>6. CASE AllTold
    BY <1>5, <1>6 DEF AllTold
  <1> QED BY <1>1, <1>2, <1>3, <1>4, <1>5, <1>6 DEF ObserversNext

LEMMA ObserversAlways == ObserversSpec => []ObserversIInv
  BY ObserversInitially, ObserversInductive, PTL DEF ObserversSpec

\* When nobody is telling, those that were to be told know.
LEMMA QuietKnows ==
    ASSUME ReachedInv, NEW c \in Covers, Quiet(c) PROVE \A o \in due[c] : <<o, c>> \in knows
  BY DEF ReachedInv, Quiet

\* However many movements, attachments, cancellations and updates that raise: an observer
\* that is attached when the observers of a cover are told
\* (AsyncObservable.notify_observers), and stays, knows where the cover is when nobody is
\* telling any more, unless a notification was cut short before it was told, and it has
\* not been told since.
THEOREM WhoStaysKnows == ObserversSpec => []ObserverInv
  <1>1. ASSUME ObserversIInv PROVE ObserverInv
    BY <1>1, QuietKnows DEF ObserversIInv, ObserverInv, ToldOfLast
  <1> QED BY <1>1, ObserversAlways, PTL

\* The last line of a CIWPositionLogger that is told of both covers, and that no cut
\* notification has left out, has the aspect ratio of the image and the drops of screen
\* and mask as they are, for every geometry of the two.
THEOREM LoggersAreCurrent == ObserversSpec => []LogIsCurrent
  <1>1. ASSUME ObserversIInv PROVE LogIsCurrent
    <2> SUFFICES ASSUME NEW l \in logging \cap due["screen"] \cap due["mask"],
                        Quiet("screen"), Quiet("mask")
                 PROVE  /\ AspectRatio(line[l]) = AspectRatio(pos)
                        /\ \A c \in Covers : Drop(line[l], c) = Drop(pos, c)
      BY DEF LogIsCurrent
    <2>1. /\ l \in Loggers /\ line \in [Loggers -> [Covers -> 0..FullyUp]]
          /\ pos \in [Covers -> 0..FullyUp] /\ ReachedInv /\ LoggedInv
      BY <1>1 DEF ObserversIInv, ObserversTypeOK
    <2>2. <<l, "screen">> \in knows /\ <<l, "mask">> \in knows
      BY <2>1, QuietKnows, CoversAre
    <2>3. \A c \in Covers : line[l][c] = pos[c]
      BY <2>1, <2>2, CoversAre DEF LoggedInv
    <2>4. line[l] = pos
      BY <2>1, <2>3
    <2> QED BY <2>4
  <1> QED BY <1>1, ObserversAlways, PTL

-----------------------------------------------------------------------------
(* Observers: the geometry of the image *)

LEMMA ProductsCompare ==
    ASSUME NEW x \in Int, NEW y \in Int, NEW t \in Nat \ {0}
    PROVE  /\ x * t \in Int
           /\ x * t = t * x
           /\ x < y => x * t < y * t
           /\ x <= y => x * t <= y * t
  OBVIOUS

LEMMA GapIs == ASSUME ObserversTypeOK PROVE Gap(pos) \in Int
  <1>1. imageDef.border \in Int
    BY ObserversAssumption DEF ObserversTypeOK
  <1>2. ASSUME NEW c \in Covers PROVE Drop(pos, c) \in Int
    <2>1. FullyUp - pos[c] \in Int /\ (IF c = "screen" THEN ScreenUnit ELSE MaskUnit) \in Nat \ {0}
      BY ObserversAssumption DEF ObserversTypeOK
    <2> QED BY <2>1, ProductsCompare DEF Drop
  <1> QED BY <1>1, <1>2, CoversAre DEF Gap

\* What the mask leaves when it leaves exactly what a ratio implies, which is not below
\* that of the definition: no more than the definition's height, and enough of it.
LEMMA ImpliedGap ==
    ASSUME NEW H \in Nat \ {0}, NEW a \in Nat \ {0}, NEW t \in Nat \ {0}, NEW g \in Int,
           a <= t, g * t = H * a
    PROVE  g <= H /\ (10 * g > H <=> t < 10 * a)
  <1>1. g <= H
    <2>1. a * H <= t * H /\ a * H = H * a /\ t * H = H * t
      BY ProductsCompare
    <2>2. ~(H < g)
      BY <2>1, ProductsCompare
    <2> QED BY <2>2
  <1>2. (10 * g) * t = 10 * (g * t) /\ (10 * a) * H = 10 * (H * a)
    OBVIOUS
  <1>3. (10 * g) * t = (10 * a) * H
    BY <1>2
  <1>4. t * H = H * t
    BY ProductsCompare
  <1>5. ASSUME 10 * g > H PROVE t < 10 * a
    <2>1. H * t < (10 * g) * t
      BY <1>5, ProductsCompare
    <2>2. ~(10 * a <= t)
      <3>1. 10 * a <= t => (10 * a) * H <= t * H
        BY ProductsCompare
      <3> QED BY <1>3, <1>4, <2>1, <3>1
    <2> QED BY <2>2
  <1>6. ASSUME t < 10 * a PROVE 10 * g > H
    <2>1. t * H < (10 * a) * H
      BY <1>6, ProductsCompare
    <2>2. ~(10 * g <= H)
      <3>1. 10 * g <= H => (10 * g) * t <= H * t
        BY ProductsCompare
      <3> QED BY <1>3, <1>4, <2>1, <3>1
    <2> QED BY <2>2
  <1> QED BY <1>1, <1>5, <1>6

\* For every geometry, and wherever the covers are: a mask that leaves what
\* implied_image_height() says of a sensible ratio shows an image of that ratio
\* (or of the definition's, if that is wider), or none if it would be too low.
THEOREM MaskShowsTheRatio == ObserversSpec => []ImpliedIsShown
  <1>1. ASSUME ObserversTypeOK PROVE ImpliedIsShown
    <2> DEFINE H == imageDef.height
               a == imageDef.aspect
               g == Gap(pos)
    <2> SUFFICES ASSUME NEW t \in Ratios, Sensible(t),
                        g * ImpliedImageHeight(t)[2] >= ImpliedImageHeight(t)[1],
                        (IF a > t THEN a ELSE t) = t =>
                            g * ImpliedImageHeight(t)[2] = ImpliedImageHeight(t)[1]
                 PROVE  IF t < 10 * a
                        THEN AspectRatio(pos)[1] = (IF a > t THEN a ELSE t) * AspectRatio(pos)[2]
                        ELSE ImageHeight(pos) = 0
      BY DEF ImpliedIsShown
    <2>1. H \in Nat \ {0} /\ a \in Nat \ {0} /\ t \in Nat \ {0} /\ g \in Int
      BY <1>1, ObserversAssumption, GapIs DEF ObserversTypeOK
    <2>2. ImageHeight(pos) = IF 10 * Least(g, H) > H THEN Least(g, H) ELSE 0
      BY DEF ImageHeight
    <2>3. AspectRatio(pos)[1] = H * a /\ AspectRatio(pos)[2] = ImageHeight(pos)
      BY DEF AspectRatio
    <2>4. CASE a > t
      <3>1. ImpliedImageHeight(t) = <<H, 1>>
        BY <2>4 DEF ImpliedImageHeight
      <3> HIDE DEF H, a, g
      <3>2. g >= H
        BY <2>1, <3>1
      <3>3. ImageHeight(pos) = H /\ t < 10 * a
        BY <2>1, <2>2, <2>4, <3>2 DEF Least
      <3>4. H * a = a * H
        BY <2>1, ProductsCompare
      <3> QED BY <2>3, <2>4, <3>3, <3>4
    <2>5. CASE ~(a > t)
      <3>1. ImpliedImageHeight(t) = <<H * a, t>>
        BY <2>5 DEF ImpliedImageHeight
      <3> HIDE DEF H, a, g
      <3>2. a <= t /\ g * t = H * a
        BY <2>1, <2>5, <3>1
      <3>3. g <= H /\ (10 * g > H <=> t < 10 * a)
        BY <2>1, <3>2, ImpliedGap
      <3>4. Least(g, H) = g
        BY <2>1, <3>3 DEF Least
      <3>5. CASE t < 10 * a
        <4>1. ImageHeight(pos) = g
          BY <2>2, <3>3, <3>4, <3>5
        <4>2. g * t = t * g
          BY <2>1, ProductsCompare
        <4> QED BY <2>3, <2>5, <3>2, <3>5, <4>1, <4>2
      <3>6. CASE ~(t < 10 * a)
        BY <2>2, <3>3, <3>4, <3>6
      <3> QED BY <3>5, <3>6
    <2> QED BY <2>4, <2>5
  <1> QED BY <1>1, ObserversAlways, PTL DEF ObserversIInv
=============================================================================
